---- MODULE Spec2Model ----
(***************************************************************************)
(* The service state-transition engine of dinit (src/service.cc): service  *)
(* records, dependency links, the propagation and transition queues of the *)
(* service set, and the process-service specialisation that drives a       *)
(* record from exec results, process exits and timer expiries.             *)
(*                                                                         *)
(* A "world" W is the record                                               *)
(*   [records, links, prop_queue, stop_queue, active_services, events,     *)
(*    forks]                                                               *)
(* and every member function of the source is an operator that takes a     *)
(* world and returns the world after the call.  Console arbitration is not *)
(* part of this model: every modelled service has starts_on_console and    *)
(* runs_on_console clear, so waiting_for_console and have_console are      *)
(* always false and the console branches of the source are never taken.    *)
(***************************************************************************)
EXTENDS Integers, Sequences, FiniteSets, TLC

\* ------------------------------------------------------------------------
\* The service set of the model: three records and three possible links.
\* ------------------------------------------------------------------------
Services == {"p", "s2", "s3"}

\* Link slots; a configuration gives each slot a dependency type or "NONE".
\* The order of the slots is the order of the depends_on / dependents lists.
LinkFrom == <<"s2", "s3", "s3">>
LinkTo   == <<"p",  "p",  "s2">>
LinkIds  == {1, 2, 3}
LinkSeq  == <<1, 2, 3>>

ServiceStates == {"STOPPED", "STARTING", "STARTED", "STOPPING"}
StopReasons == {"NORMAL", "DEPFAILED", "FAILED", "EXECFAILED", "TIMEDOUT", "TERMINATED"}
DepTypes == {"REGULAR", "MILESTONE", "WAITS_FOR", "SOFT"}
ServiceTypes == {"INTERNAL", "PROCESS", "SCRIPTED"}

VARIABLES
    records,          \* [Services -> service_record fields]
    links,            \* [LinkIds -> [waiting_on, holding_acq]]
    prop_queue,       \* service_set::prop_queue
    stop_queue,       \* service_set::stop_queue (the transition queue)
    console_queue,    \* service_set::console_queue
    active_services,  \* service_set::active_services
    events,           \* listener notifications emitted by the last handler
    forks,            \* children forked by the last handler
    stop_cmd,         \* history: the STARTED service the latest command told to stop
    restart_cmd,      \* history: the service the latest command told to restart
    start_cmd,        \* history: the service the latest command started against a stop
    drain_steps,      \* history: queue-processing steps taken in the unfinished drain
    conf              \* the loaded service descriptions (never change)

vars == <<records, links, prop_queue, stop_queue, console_queue, active_services, events, forks,
          stop_cmd, restart_cmd, start_cmd, drain_steps, conf>>

\* ------------------------------------------------------------------------
\* Service descriptions
\* ------------------------------------------------------------------------
NoFlags ==
    [auto_restart |-> FALSE, smooth_recovery |-> FALSE, start_interruptible |-> FALSE,
     skippable |-> FALSE, stop_command |-> FALSE, start_timeout |-> FALSE,
     stop_timeout |-> TRUE, restart_delay |-> FALSE, restart_limit |-> FALSE,
     starts_on_console |-> FALSE, runs_on_console |-> FALSE]

\* set_restart_interval(interval, max count): the restarts allowed within one interval
MaxRestartCount == 3

dep_type(l) == conf.dep_type[l]
record_type(s) == conf.svc[s].type
flag(s) == conf.svc[s].flags

\* depends_on / dependents of a record, as sequences of link ids in list order
depends_on(s) ==
    LET Test(l) == LinkFrom[l] = s /\ dep_type(l) # "NONE" IN SelectSeq(LinkSeq, Test)

dependents(s) ==
    LET Test(l) == LinkTo[l] = s /\ dep_type(l) # "NONE" IN SelectSeq(LinkSeq, Test)

get_from(l) == LinkFrom[l]
get_to(l) == LinkTo[l]

InSeq(x, q) == \E i \in 1..Len(q) : q[i] = x

\* ------------------------------------------------------------------------
\* service_set: queues, counters, listeners
\* ------------------------------------------------------------------------
add_prop_queue(W, s) ==
    IF InSeq(s, W.prop_queue) THEN W ELSE [W EXCEPT !.prop_queue = Append(@, s)]

add_transition_queue(W, s) ==
    IF InSeq(s, W.stop_queue) THEN W ELSE [W EXCEPT !.stop_queue = Append(@, s)]

\* the console queue links the records themselves: a record is in it at most once
append_console_queue(W, s) ==
    IF InSeq(s, W.console_queue) THEN W ELSE [W EXCEPT !.console_queue = Append(@, s)]

unqueue_console(W, s) ==
    LET Other(x) == x # s IN [W EXCEPT !.console_queue = SelectSeq(@, Other)]

service_active(W, s) == [W EXCEPT !.active_services = @ + 1]

service_inactive(W, s) == [W EXCEPT !.active_services = @ - 1]

notify_listeners(W, s, ev) == [W EXCEPT !.events = @ \cup {<<s, ev>>}]

\* ------------------------------------------------------------------------
\* service_dep and simple queries
\* ------------------------------------------------------------------------
is_hard(W, l) ==
    \/ dep_type(l) = "REGULAR"
    \/ dep_type(l) = "MILESTONE" /\ W.links[l].waiting_on

is_stopped(W, s) ==
    \/ W.records[s].service_state = "STOPPED"
    \/ W.records[s].service_state = "STARTING" /\ W.records[s].waiting_for_deps

check_deps_started(W, s) ==
    \A i \in 1..Len(depends_on(s)) : ~ W.links[depends_on(s)[i]].waiting_on

stop_check_dependents(W, s) ==
    \A i \in 1..Len(dependents(s)) :
        LET l == dependents(s)[i] IN ~ (is_hard(W, l) /\ W.links[l].holding_acq)

\* ------------------------------------------------------------------------
\* Signals and the per-record timer (process agent and timer source)
\* ------------------------------------------------------------------------
kill_pg(W, s, sig) == [W EXCEPT !.records[s].last_sig = sig]

arm_stop_timer(W, s) ==
    IF flag(s).stop_timeout
    THEN [W EXCEPT !.records[s].stop_timer_armed = TRUE]
    ELSE [W EXCEPT !.records[s].stop_timer_armed = FALSE]

\* ------------------------------------------------------------------------
\* Stopping
\* ------------------------------------------------------------------------
forced_stop(W, s) ==
    IF W.records[s].service_state # "STOPPED"
    THEN LET W1 == [W EXCEPT !.records[s].force_stop = TRUE]
         IN  IF ~ W1.records[s].pinned_started
             THEN add_prop_queue([W1 EXCEPT !.records[s].prop_stop = TRUE], s)
             ELSE W1
    ELSE W

RECURSIVE stop_dependents_loop(_, _, _)
stop_dependents_loop(R, s, ls) ==
    IF ls = <<>> THEN R
    ELSE LET l == Head(ls)
             W == R.W
             from == get_from(l)
         IN  IF is_hard(W, l) /\ W.links[l].holding_acq
             THEN LET ret == R.ret /\ is_stopped(W, from)
                      W1 == IF W.records[s].force_stop THEN forced_stop(W, from) ELSE W
                      W2 == add_prop_queue([W1 EXCEPT !.records[from].prop_stop = TRUE], from)
                  IN  stop_dependents_loop([W |-> W2, ret |-> ret], s, Tail(ls))
             ELSE stop_dependents_loop(R, s, Tail(ls))

stop_dependents(W, s) == stop_dependents_loop([W |-> W, ret |-> TRUE], s, dependents(s))

can_interrupt_start(W, s) ==
    IF record_type(s) = "INTERNAL"
    THEN W.records[s].waiting_for_deps
    ELSE \/ W.records[s].waiting_restart_timer
         \/ flag(s).start_interruptible
         \/ W.records[s].waiting_for_deps

base_process_interrupt_start(W, s) ==
    IF W.records[s].waiting_restart_timer
    THEN [W |-> [W EXCEPT !.records[s].waiting_restart_timer = FALSE], ret |-> TRUE]
    ELSE LET W1 == arm_stop_timer(kill_pg(W, s, "SIGINT"), s)
         IN  [W |-> [W1 EXCEPT !.records[s].service_state = "STOPPING"], ret |-> FALSE]

scripted_interrupt_start(R, s) ==
    [W |-> [R.W EXCEPT !.records[s].interrupting_start = ~ R.ret], ret |-> R.ret]

\* interrupt_start() of the base class for every kind of service: nothing to interrupt
interrupt_start_base(W, s) == [W |-> W, ret |-> TRUE]

interrupt_start(W, s) ==
    CASE record_type(s) = "INTERNAL" -> [W |-> W, ret |-> TRUE]
      [] record_type(s) = "PROCESS" -> base_process_interrupt_start(W, s)
      [] record_type(s) = "SCRIPTED" ->
            scripted_interrupt_start(base_process_interrupt_start(W, s), s)

do_stop_finish(W, s, all_deps_stopped) ==
    IF W.records[s].pinned_started THEN W
    ELSE LET W1 == IF W.records[s].required_by = 0
                   THEN add_prop_queue([W EXCEPT !.records[s].prop_release = TRUE], s)
                   ELSE W
             W2 == [W1 EXCEPT !.records[s].service_state = "STOPPING",
                              !.records[s].waiting_for_deps = TRUE]
         IN  IF all_deps_stopped THEN add_transition_queue(W2, s) ELSE W2

\* do_stop after interrupt_start() has answered (I.ret)
do_stop_interrupted(I, s, all_deps_stopped) ==
    IF ~ I.ret
    THEN notify_listeners(I.W, s, "STARTCANCELLED")
    ELSE do_stop_finish(notify_listeners(I.W, s, "STARTCANCELLED"), s, all_deps_stopped)

\* do_stop that cancels every start without asking can_interrupt_start()
do_stop_state_cancels_any_start(W, s, all_deps_stopped) ==
    IF W.records[s].service_state = "STARTED"
    THEN do_stop_finish(W, s, all_deps_stopped)
    ELSE IF W.records[s].service_state = "STARTING"
         THEN do_stop_finish(notify_listeners(W, s, "STARTCANCELLED"), s, all_deps_stopped)
         ELSE W

\* do_stop that goes on to STOPPING from any state but STARTING
do_stop_state_from_any_state(W, s, all_deps_stopped) ==
    IF W.records[s].service_state = "STARTING"
    THEN do_stop_finish(notify_listeners(W, s, "STARTCANCELLED"), s, all_deps_stopped)
    ELSE do_stop_finish(W, s, all_deps_stopped)

\* do_stop after stop_dependents() has returned all_deps_stopped
do_stop_state(W, s, all_deps_stopped) ==
    LET r == W.records[s]
    IN  IF r.service_state # "STARTED"
        THEN IF r.service_state = "STARTING"
             THEN IF ~ r.waiting_for_deps /\ ~ r.waiting_for_console
                  THEN IF ~ can_interrupt_start(W, s)
                       THEN W
                       ELSE do_stop_interrupted(interrupt_start(W, s), s, all_deps_stopped)
                  ELSE do_stop_finish(
                           notify_listeners(
                               IF r.waiting_for_console
                               THEN [unqueue_console(W, s) EXCEPT
                                         !.records[s].waiting_for_console = FALSE]
                               ELSE W, s, "STARTCANCELLED"),
                           s, all_deps_stopped)
             ELSE W
        ELSE do_stop_finish(W, s, all_deps_stopped)

do_stop_dependents(R, s) == do_stop_state(R.W, s, R.ret)

do_stop(W, s) == do_stop_dependents(stop_dependents(W, s), s)

\* ------------------------------------------------------------------------
\* Activation counting
\* ------------------------------------------------------------------------
require(W, s) ==
    LET W1 == [W EXCEPT !.records[s].required_by = @ + 1]
    IN  IF W.records[s].required_by = 0
        THEN LET W2 == add_prop_queue(
                           [W1 EXCEPT !.records[s].prop_require = ~ W.records[s].prop_release,
                                      !.records[s].prop_release = FALSE], s)
             IN  IF W2.records[s].service_state \notin {"STARTING", "STARTED"}
                 THEN [W2 EXCEPT !.records[s].prop_start = TRUE]
                 ELSE W2
        ELSE W1

\* release(false): the count is given up and no stop is issued
release_without_stop(W, s) ==
    LET W1 == [W EXCEPT !.records[s].required_by = @ - 1]
    IN  IF W1.records[s].required_by = 0
        THEN LET W2 == [W1 EXCEPT !.records[s].desired_state = "STOPPED"]
                 st == W2.records[s].service_state
                 W3 == IF st \notin {"STOPPED", "STOPPING"}
                       THEN add_prop_queue(
                                [W2 EXCEPT !.records[s].prop_release = ~ W2.records[s].prop_require,
                                           !.records[s].prop_require = FALSE], s)
                       ELSE W2
             IN  IF st = "STOPPED" THEN service_inactive(W3, s) ELSE W3
        ELSE W1

\* release() after the count is given up: the stop it issues
release_issue_stop(V, s, stop_now) ==
    IF stop_now THEN do_stop([V EXCEPT !.records[s].stop_reason = "NORMAL"], s) ELSE V

release(W, s, issue_stop) ==
    release_issue_stop(release_without_stop(W, s), s,
                       /\ issue_stop
                       /\ W.records[s].required_by = 1
                       /\ W.records[s].service_state # "STOPPED")

RECURSIVE release_dependencies_loop(_, _)
release_dependencies_loop(W, ls) ==
    IF ls = <<>> THEN W
    ELSE LET l == Head(ls)
         IN  IF W.links[l].holding_acq
             THEN release_dependencies_loop(
                      release([W EXCEPT !.links[l].holding_acq = FALSE], get_to(l), TRUE),
                      Tail(ls))
             ELSE release_dependencies_loop(W, Tail(ls))

release_dependencies(W, s) == release_dependencies_loop(W, depends_on(s))

\* ------------------------------------------------------------------------
\* Starting
\* ------------------------------------------------------------------------
dependency_started(W, s) ==
    IF /\ W.records[s].service_state \in {"STARTING", "STARTED"}
       /\ W.records[s].waiting_for_deps
    THEN add_transition_queue(W, s)
    ELSE W

dependent_stopped(W, s) ==
    IF W.records[s].service_state = "STOPPING" /\ W.records[s].waiting_for_deps
    THEN add_transition_queue(W, s)
    ELSE W

RECURSIVE start_check_dependencies_loop(_, _)
start_check_dependencies_loop(R, ls) ==
    IF ls = <<>> THEN R
    ELSE LET l == Head(ls)
             W == R.W
             to == get_to(l)
         IN  IF W.records[to].service_state # "STARTED"
             THEN LET W1 == IF W.records[to].service_state # "STARTING"
                            THEN add_prop_queue([W EXCEPT !.records[to].prop_start = TRUE], to)
                            ELSE W
                      W2 == [W1 EXCEPT !.links[l].waiting_on = TRUE]
                  IN  start_check_dependencies_loop([W |-> W2, ret |-> FALSE], Tail(ls))
             ELSE start_check_dependencies_loop(R, Tail(ls))

start_check_dependencies(W, s) ==
    start_check_dependencies_loop([W |-> W, ret |-> TRUE], depends_on(s))

can_interrupt_stop(W, s) ==
    W.records[s].waiting_for_deps /\ ~ W.records[s].force_stop

start_begin_checked(R, s) == IF R.ret THEN add_transition_queue(R.W, s) ELSE R.W

start_begin(W, s) ==
    start_begin_checked(
        start_check_dependencies([W EXCEPT !.records[s].start_failed = FALSE,
                                           !.records[s].start_skipped = FALSE,
                                           !.records[s].service_state = "STARTING",
                                           !.records[s].waiting_for_deps = TRUE], s), s)

\* start() that does not note the restart when the stop cannot be interrupted
start_drops_restart(W, s, activate) ==
    LET W1 == IF activate /\ ~ W.records[s].start_explicit
              THEN [require(W, s) EXCEPT !.records[s].start_explicit = TRUE]
              ELSE W
        was_active == \/ W1.records[s].service_state # "STOPPED"
                      \/ W1.records[s].desired_state # "STOPPED"
        W2 == [W1 EXCEPT !.records[s].desired_state = "STARTED"]
        st == W2.records[s].service_state
    IN  IF st # "STOPPED"
        THEN IF st # "STOPPING" THEN W2
             ELSE IF ~ can_interrupt_stop(W2, s)
                  THEN W2
                  ELSE start_begin(notify_listeners(W2, s, "STOPCANCELLED"), s)
        ELSE IF ~ was_active
             THEN start_begin(service_active(W2, s), s)
             ELSE start_begin(W2, s)

\* start() that takes an activation count on every call, explicit already or not
start_always_requires(W, s, activate) ==
    LET W1 == IF activate
              THEN [require(W, s) EXCEPT !.records[s].start_explicit = TRUE]
              ELSE W
        was_active == \/ W1.records[s].service_state # "STOPPED"
                      \/ W1.records[s].desired_state # "STOPPED"
        W2 == [W1 EXCEPT !.records[s].desired_state = "STARTED"]
        st == W2.records[s].service_state
    IN  IF st # "STOPPED"
        THEN IF st # "STOPPING" THEN W2
             ELSE IF ~ can_interrupt_stop(W2, s)
                  THEN [W2 EXCEPT !.records[s].restarting = TRUE]
                  ELSE start_begin(notify_listeners(W2, s, "STOPCANCELLED"), s)
        ELSE IF ~ was_active
             THEN start_begin(service_active(W2, s), s)
             ELSE start_begin(W2, s)

start(W, s, activate) ==
    LET W1 == IF activate /\ ~ W.records[s].start_explicit
              THEN [require(W, s) EXCEPT !.records[s].start_explicit = TRUE]
              ELSE W
        was_active == \/ W1.records[s].service_state # "STOPPED"
                      \/ W1.records[s].desired_state # "STOPPED"
        W2 == [W1 EXCEPT !.records[s].desired_state = "STARTED"]
        st == W2.records[s].service_state
    IN  IF st # "STOPPED"
        THEN IF st # "STOPPING" THEN W2
             ELSE IF ~ can_interrupt_stop(W2, s)
                  THEN [W2 EXCEPT !.records[s].restarting = TRUE]
                  ELSE start_begin(notify_listeners(W2, s, "STOPCANCELLED"), s)
        ELSE IF ~ was_active
             THEN start_begin(service_active(W2, s), s)
             ELSE start_begin(W2, s)

\* ------------------------------------------------------------------------
\* stopped / started / failed_to_start
\* ------------------------------------------------------------------------
\* the loop of stopped() clearing holding_acq without the release() that goes with it
\* release_console() hands the console on, which can bring other records up
RECURSIVE release_console(_, _)

RECURSIVE stopped_break_soft_no_release(_, _, _)
stopped_break_soft_no_release(W, s, ls) ==
    IF ls = <<>> THEN W
    ELSE LET l == Head(ls)
         IN  IF ~ is_hard(W, l)
             THEN LET W1 == IF W.links[l].waiting_on
                            THEN dependency_started([W EXCEPT !.links[l].waiting_on = FALSE],
                                                    get_from(l))
                            ELSE W
                  IN  stopped_break_soft_no_release([W1 EXCEPT !.links[l].holding_acq = FALSE],
                                                    s, Tail(ls))
             ELSE stopped_break_soft_no_release(W, s, Tail(ls))

RECURSIVE stopped_break_soft(_, _, _)
stopped_break_soft(W, s, ls) ==
    IF ls = <<>> THEN W
    ELSE LET l == Head(ls)
         IN  IF ~ is_hard(W, l)
             THEN LET W1 == IF W.links[l].waiting_on
                            THEN dependency_started([W EXCEPT !.links[l].waiting_on = FALSE],
                                                    get_from(l))
                            ELSE W
                      W2 == IF W1.links[l].holding_acq
                            THEN release_without_stop([W1 EXCEPT !.links[l].holding_acq = FALSE], s)
                            ELSE W1
                  IN  stopped_break_soft(W2, s, Tail(ls))
             ELSE stopped_break_soft(W, s, Tail(ls))

RECURSIVE signal_dependencies(_, _)
signal_dependencies(W, ls) ==
    IF ls = <<>> THEN W
    ELSE signal_dependencies(dependent_stopped(W, get_to(Head(ls))), Tail(ls))

\* stopped() that restarts only a record that is explicitly activated
stopped_restarts_explicit_only(W, s) ==
    LET rst == W.records[s].restarting \/ flag(s).auto_restart
        will_restart == rst /\ W.records[s].start_explicit
        cancelled(V) ==
            IF rst /\ ~ will_restart THEN notify_listeners(V, s, "STARTCANCELLED") ELSE V
        break_soft(V) ==
            IF ~ will_restart THEN stopped_break_soft(V, s, dependents(s)) ELSE V
        finish(V) ==
            IF will_restart
            THEN start([V EXCEPT !.records[s].restarting = TRUE], s, FALSE)
            ELSE IF V.records[s].start_explicit
                 THEN release_without_stop([V EXCEPT !.records[s].start_explicit = FALSE], s)
                 ELSE IF V.records[s].required_by = 0
                      THEN service_inactive(
                               add_prop_queue(
                                   [V EXCEPT !.records[s].prop_release =
                                                 ~ V.records[s].prop_require,
                                             !.records[s].prop_require = FALSE], s), s)
                      ELSE V
        W1 == [W EXCEPT !.records[s].force_stop = FALSE]
        W2 == cancelled(W1)
        W3 == [W2 EXCEPT !.records[s].restarting = FALSE]
        W4 == break_soft(W3)
        W5 == signal_dependencies(W4, depends_on(s))
        W6 == [W5 EXCEPT !.records[s].service_state = "STOPPED"]
        W7 == finish(W6)
    IN  notify_listeners(W7, s, "STOPPED")

\* stopped() that restarts whenever restarting or auto_restart is set, required or not
stopped_restarts_unrequired(W, s) ==
    LET rst == W.records[s].restarting \/ flag(s).auto_restart
        will_restart == rst
        cancelled(V) ==
            IF rst /\ ~ will_restart THEN notify_listeners(V, s, "STARTCANCELLED") ELSE V
        break_soft(V) ==
            IF ~ will_restart THEN stopped_break_soft(V, s, dependents(s)) ELSE V
        finish(V) ==
            IF will_restart
            THEN start([V EXCEPT !.records[s].restarting = TRUE], s, FALSE)
            ELSE IF V.records[s].start_explicit
                 THEN release_without_stop([V EXCEPT !.records[s].start_explicit = FALSE], s)
                 ELSE IF V.records[s].required_by = 0
                      THEN service_inactive(
                               add_prop_queue(
                                   [V EXCEPT !.records[s].prop_release =
                                                 ~ V.records[s].prop_require,
                                             !.records[s].prop_require = FALSE], s), s)
                      ELSE V
        W1 == [W EXCEPT !.records[s].force_stop = FALSE]
        W2 == cancelled(W1)
        W3 == [W2 EXCEPT !.records[s].restarting = FALSE]
        W4 == break_soft(W3)
        W5 == signal_dependencies(W4, depends_on(s))
        W6 == [W5 EXCEPT !.records[s].service_state = "STOPPED"]
        W7 == finish(W6)
    IN  notify_listeners(W7, s, "STOPPED")

\* stopped() once the console, if held, has been released
stopped_console_released(W, s) ==
    LET rst == W.records[s].restarting \/ flag(s).auto_restart
        will_restart == rst /\ W.records[s].required_by > 0
        cancelled(V) ==
            IF rst /\ ~ will_restart THEN notify_listeners(V, s, "STARTCANCELLED") ELSE V
        break_soft(V) ==
            IF ~ will_restart THEN stopped_break_soft(V, s, dependents(s)) ELSE V
        finish(V) ==
            IF will_restart
            THEN start([V EXCEPT !.records[s].restarting = TRUE], s, FALSE)
            ELSE IF V.records[s].start_explicit
                 THEN release_without_stop([V EXCEPT !.records[s].start_explicit = FALSE], s)
                 ELSE IF V.records[s].required_by = 0
                      THEN service_inactive(
                               add_prop_queue(
                                   [V EXCEPT !.records[s].prop_release =
                                                 ~ V.records[s].prop_require,
                                             !.records[s].prop_require = FALSE], s), s)
                      ELSE V
        W1 == [W EXCEPT !.records[s].force_stop = FALSE]
        W2 == cancelled(W1)
        W3 == [W2 EXCEPT !.records[s].restarting = FALSE]
        W4 == break_soft(W3)
        W5 == signal_dependencies(W4, depends_on(s))
        W6 == [W5 EXCEPT !.records[s].service_state = "STOPPED"]
        W7 == finish(W6)
    IN  notify_listeners(W7, s, "STOPPED")

stopped(W, s) ==
    stopped_console_released(
        IF W.records[s].have_console THEN release_console(W, s) ELSE W, s)

RECURSIVE started_notify_dependents(_, _)
started_notify_dependents(W, ls) ==
    IF ls = <<>> THEN W
    ELSE LET l == Head(ls)
             W1 == dependency_started(W, get_from(l))
         IN  started_notify_dependents([W1 EXCEPT !.links[l].waiting_on = FALSE], Tail(ls))

\* started() once the console, if held only for the start, has been released
started_console_released(W, s) ==
    LET W1 == notify_listeners([W EXCEPT !.records[s].service_state = "STARTED"], s, "STARTED")
    IN  IF W1.records[s].force_stop \/ W1.records[s].desired_state = "STOPPED"
        THEN do_stop(W1, s)
        ELSE started_notify_dependents(W1, dependents(s))

started(W, s) ==
    started_console_released(
        IF W.records[s].have_console /\ ~ flag(s).runs_on_console
        THEN release_console(W, s)
        ELSE W, s)

\* failed_to_start's loop without the dependency-type test: a waits-for or soft
\* dependent is failed like a hard one
RECURSIVE failed_to_start_dependents_all_hard(_, _, _)
failed_to_start_dependents_all_hard(W, s, ls) ==
    IF ls = <<>> THEN W
    ELSE LET l == Head(ls)
             from == get_from(l)
             W1 == IF W.records[from].service_state = "STARTING"
                   THEN add_prop_queue([W EXCEPT !.records[from].prop_failure = TRUE], from)
                   ELSE W
             W2 == IF W1.links[l].holding_acq
                   THEN release_without_stop([W1 EXCEPT !.links[l].holding_acq = FALSE], s)
                   ELSE W1
         IN  failed_to_start_dependents_all_hard(W2, s, Tail(ls))

RECURSIVE failed_to_start_dependents(_, _, _)
failed_to_start_dependents(W, s, ls) ==
    IF ls = <<>> THEN W
    ELSE LET l == Head(ls)
             from == get_from(l)
             W1 == IF dep_type(l) \in {"REGULAR", "MILESTONE"}
                   THEN IF W.records[from].service_state = "STARTING"
                        THEN add_prop_queue([W EXCEPT !.records[from].prop_failure = TRUE], from)
                        ELSE W
                   ELSE IF W.links[l].waiting_on
                        THEN dependency_started([W EXCEPT !.links[l].waiting_on = FALSE], from)
                        ELSE W
             W2 == IF W1.links[l].holding_acq
                   THEN release_without_stop([W1 EXCEPT !.links[l].holding_acq = FALSE], s)
                   ELSE W1
         IN  failed_to_start_dependents(W2, s, Tail(ls))

\* failed_to_start() once the record has been taken off the console queue
failed_to_start_unqueued(W, s, depfailed, immediate_stop) ==
    LET finish(V) == IF immediate_stop THEN stopped(V, s) ELSE V
        W1 == IF W.records[s].start_explicit
              THEN release_without_stop([W EXCEPT !.records[s].start_explicit = FALSE], s)
              ELSE W
        W2 == failed_to_start_dependents(W1, s, dependents(s))
        W3 == notify_listeners([W2 EXCEPT !.records[s].start_failed = TRUE], s, "FAILEDSTART")
    IN  finish(W3)

failed_to_start(W, s, depfailed, immediate_stop) ==
    failed_to_start_unqueued(
        IF W.records[s].waiting_for_console
        THEN [unqueue_console(W, s) EXCEPT !.records[s].waiting_for_console = FALSE]
        ELSE W, s, depfailed, immediate_stop)

\* ------------------------------------------------------------------------
\* Process services: launching and bringing down
\* ------------------------------------------------------------------------
start_ps_process(W, s) ==
    [W EXCEPT !.records[s].pid = 1,
              !.records[s].last_sig = "NONE",
              !.records[s].waiting_for_execstat = TRUE,
              !.forks = @ + 1]

do_restart(W, s) ==
    LET W1 == [W EXCEPT !.records[s].waiting_restart_timer = FALSE,
                        !.records[s].restart_interval_count =
                            IF flag(s).restart_limit THEN @ + 1 ELSE @]
    IN  IF W1.records[s].service_state = "STARTING" /\ ~ check_deps_started(W1, s)
        THEN [W1 EXCEPT !.records[s].waiting_for_deps = TRUE]
        ELSE start_ps_process(W1, s)

\* too many restarts within the restart interval
restarted_too_often(W, s) ==
    flag(s).restart_limit /\ W.records[s].restart_interval_count >= MaxRestartCount

\* restart_ps_process() that relaunches at once, whatever the restart delay
restart_ps_process_at_once(W, s) ==
    IF restarted_too_often(W, s)
    THEN [W |-> W, ret |-> FALSE]
    ELSE [W |-> do_restart(W, s), ret |-> TRUE]

restart_ps_process(W, s) ==
    IF restarted_too_often(W, s)
    THEN [W |-> W, ret |-> FALSE]
    ELSE IF ~ flag(s).restart_delay \/ W.records[s].delay_elapsed
         THEN [W |-> do_restart(W, s), ret |-> TRUE]
         ELSE [W |-> [W EXCEPT !.records[s].waiting_restart_timer = TRUE], ret |-> TRUE]

base_process_bring_up(W, s) ==
    IF W.records[s].restarting
    THEN IF W.records[s].pid = -1 THEN restart_ps_process(W, s) ELSE [W |-> W, ret |-> TRUE]
    ELSE LET W1 == start_ps_process(W, s)
         IN  [W |-> IF flag(s).start_timeout /\ record_type(s) # "PROCESS"
                    THEN [W1 EXCEPT !.records[s].stop_timer_armed = TRUE]
                    ELSE [W1 EXCEPT !.records[s].stop_timer_armed = FALSE],
              ret |-> TRUE]

bring_up(W, s) ==
    IF record_type(s) = "INTERNAL"
    THEN [W |-> started(W, s), ret |-> TRUE]
    ELSE base_process_bring_up(W, s)

\* bring_down() that issues the signal or stop command without arming the stop timer
bring_down_no_timer(W, s) ==
    LET W1 == [W EXCEPT !.records[s].waiting_for_deps = FALSE]
    IN  CASE record_type(s) = "INTERNAL" -> stopped(W1, s)
          [] record_type(s) = "PROCESS" ->
                IF W1.records[s].pid # -1
                THEN kill_pg(W1, s, "SIGTERM")
                ELSE stopped(W1, s)
          [] record_type(s) = "SCRIPTED" ->
                IF W1.records[s].pid # -1 THEN W1
                ELSE IF ~ flag(s).stop_command THEN stopped(W1, s)
                     ELSE start_ps_process(W1, s)

\* bring_down() has no process to signal and no stop command to run
nothing_to_bring_down(W, s) ==
    \/ record_type(s) = "INTERNAL"
    \/ W.records[s].pid = -1 /\ (record_type(s) = "PROCESS" \/ ~ flag(s).stop_command)

bring_down(W, s) ==
    LET W1 == [W EXCEPT !.records[s].waiting_for_deps = FALSE]
    IN  IF nothing_to_bring_down(W1, s)
        THEN stopped(W1, s)
        ELSE IF record_type(s) = "PROCESS"
             THEN arm_stop_timer(kill_pg(W1, s, "SIGTERM"), s)
             ELSE IF W1.records[s].pid # -1 THEN W1
                  ELSE arm_stop_timer(start_ps_process(W1, s), s)

can_proceed_to_start(W, s) ==
    record_type(s) = "INTERNAL" \/ ~ W.records[s].waiting_restart_timer

\* all_deps_started after bring_up() has returned R.ret
all_deps_started_brought_up(R, s) ==
    LET W2 == [R.W EXCEPT !.records[s].restarting = FALSE]
    IN  IF ~ R.ret THEN failed_to_start(W2, s, FALSE, TRUE) ELSE W2

\* all_deps_started() that holds the record back instead of bringing it up
all_deps_started_held_back(W, s) ==
    [W EXCEPT !.records[s].waiting_for_deps = TRUE]

queue_for_console(W, s) ==
    append_console_queue([W EXCEPT !.records[s].waiting_for_console = TRUE], s)

all_deps_started(W, s) ==
    IF flag(s).starts_on_console /\ ~ W.records[s].have_console
    THEN queue_for_console(W, s)
    ELSE LET W1 == [W EXCEPT !.records[s].waiting_for_deps = FALSE]
         IN  IF ~ can_proceed_to_start(W1, s)
             THEN [W1 EXCEPT !.records[s].waiting_for_deps = TRUE]
             ELSE all_deps_started_brought_up(bring_up(W1, s), s)

\* acquired_console() once the flags are set
acquired_console_granted(W, s) ==
    IF W.records[s].service_state # "STARTING"
    THEN release_console(W, s)
    ELSE IF check_deps_started(W, s)
         THEN all_deps_started(W, s)
         ELSE release_console(W, s)

\* acquired_console() that leaves waiting_for_console set
acquired_console_still_waiting(W, s) ==
    acquired_console_granted([W EXCEPT !.records[s].have_console = TRUE], s)

acquired_console(W, s) ==
    acquired_console_granted([W EXCEPT !.records[s].waiting_for_console = FALSE,
                                       !.records[s].have_console = TRUE], s)

\* pull_console_queue() with the queue as it was when called
pull_console_queue_from(W, q) ==
    IF q = <<>> THEN W
    ELSE acquired_console([W EXCEPT !.console_queue = Tail(q)], Head(q))

pull_console_queue(W) == pull_console_queue_from(W, W.console_queue)

release_console(W, s) ==
    pull_console_queue([W EXCEPT !.records[s].have_console = FALSE])

\* ------------------------------------------------------------------------
\* Queue processing steps
\* ------------------------------------------------------------------------
RECURSIVE do_propagation_require(_, _)
do_propagation_require(W, ls) ==
    IF ls = <<>> THEN W
    ELSE do_propagation_require(
             [require(W, get_to(Head(ls))) EXCEPT !.links[Head(ls)].holding_acq = TRUE],
             Tail(ls))

\* do_propagation() that handles nothing and puts the record back on the queue
do_propagation_requeues(W, s) == add_prop_queue(W, s)

do_propagation(W, s) ==
    LET propagate_require(V) ==
            IF V.records[s].prop_require
            THEN [do_propagation_require(V, depends_on(s)) EXCEPT
                      !.records[s].prop_require = FALSE]
            ELSE V
        propagate_release(V) ==
            IF V.records[s].prop_release
            THEN [release_dependencies(V, s) EXCEPT !.records[s].prop_release = FALSE]
            ELSE V
        propagate_failure(V) ==
            IF V.records[s].prop_failure
            THEN failed_to_start([V EXCEPT !.records[s].prop_failure = FALSE,
                                           !.records[s].stop_reason = "DEPFAILED"],
                                 s, TRUE, TRUE)
            ELSE V
        propagate_start(V) ==
            IF V.records[s].prop_start
            THEN start([V EXCEPT !.records[s].prop_start = FALSE], s, FALSE)
            ELSE V
        propagate_stop(V) ==
            IF V.records[s].prop_stop
            THEN do_stop([V EXCEPT !.records[s].prop_stop = FALSE], s)
            ELSE V
    IN  propagate_stop(propagate_start(propagate_failure(propagate_release(
            propagate_require(W)))))

execute_transition(W, s) ==
    LET r == W.records[s]
    IN  IF r.service_state = "STARTING" \/ (r.service_state = "STARTED" /\ r.restarting)
        THEN IF check_deps_started(W, s) THEN all_deps_started(W, s) ELSE W
        ELSE IF r.service_state = "STOPPING"
             THEN IF stop_check_dependents(W, s)
                  THEN LET W1 == [W EXCEPT !.records[s].waiting_for_deps = FALSE]
                           W2 == IF r.start_explicit /\ ~ flag(s).auto_restart /\ ~ r.restarting
                                 THEN release_without_stop(
                                          [W1 EXCEPT !.records[s].start_explicit = FALSE], s)
                                 ELSE W1
                       IN  bring_down(W2, s)
                  ELSE W
             ELSE W

\* ------------------------------------------------------------------------
\* Commands
\* ------------------------------------------------------------------------
do_start(W, s) ==
    IF W.records[s].pinned_stopped THEN W
    ELSE IF W.records[s].service_state # "STARTING" THEN W
         ELSE LET W1 == [W EXCEPT !.records[s].service_state = "STARTING",
                                  !.records[s].waiting_for_deps = TRUE]
              IN  IF check_deps_started(W1, s) THEN all_deps_started(W1, s) ELSE W1

\* stop() that gives up the activation count but leaves start_explicit set
stop_keeps_explicit(W, s, bring_down_arg) ==
    LET W1 == IF W.records[s].start_explicit
              THEN [W EXCEPT !.records[s].required_by = @ - 1]
              ELSE W
        bd == bring_down_arg \/ W1.records[s].required_by = 0
    IN  IF bd /\ W1.records[s].service_state \notin {"STOPPED", "STOPPING"}
        THEN do_stop([W1 EXCEPT !.records[s].stop_reason = "NORMAL"], s)
        ELSE W1

\* stop() that clears start_explicit but forgets the matching required_by--
stop_keeps_count(W, s, bring_down_arg) ==
    LET W1 == [W EXCEPT !.records[s].start_explicit = FALSE]
        bd == bring_down_arg \/ W1.records[s].required_by = 0
    IN  IF bd /\ W1.records[s].service_state \notin {"STOPPED", "STOPPING"}
        THEN do_stop([W1 EXCEPT !.records[s].stop_reason = "NORMAL"], s)
        ELSE W1

stop(W, s, bring_down_arg) ==
    LET W1 == IF W.records[s].start_explicit
              THEN [W EXCEPT !.records[s].start_explicit = FALSE,
                             !.records[s].required_by = @ - 1]
              ELSE W
        bd == bring_down_arg \/ W1.records[s].required_by = 0
    IN  IF bd /\ W1.records[s].service_state \notin {"STOPPED", "STOPPING"}
        THEN do_stop([W1 EXCEPT !.records[s].stop_reason = "NORMAL"], s)
        ELSE W1

restart(W, s) ==
    IF W.records[s].service_state = "STARTED"
    THEN do_stop([W EXCEPT !.records[s].restarting = TRUE,
                           !.records[s].stop_reason = "NORMAL"], s)
    ELSE W

RECURSIVE unpin_dependencies(_, _, _)
unpin_dependencies(W, s, ls) ==
    IF ls = <<>> THEN W
    ELSE LET l == Head(ls)
             W1 == IF is_hard(W, l)
                   THEN IF W.records[get_to(l)].service_state # "STARTED"
                        THEN [W EXCEPT !.records[s].desired_state = "STOPPED"]
                        ELSE W
                   ELSE IF W.links[l].holding_acq
                        THEN release([W EXCEPT !.links[l].holding_acq = FALSE], get_to(l), TRUE)
                        ELSE W
         IN  unpin_dependencies(W1, s, Tail(ls))

unpin(W, s) ==
    LET unpin_started(V) ==
            IF V.records[s].desired_state = "STOPPED" \/ V.records[s].force_stop
            THEN do_stop(V, s)
            ELSE V
        unpin_stopped(V) ==
            IF V.records[s].pinned_stopped
            THEN IF V.records[s].desired_state = "STARTED"
                 THEN do_start([V EXCEPT !.records[s].pinned_stopped = FALSE], s)
                 ELSE [V EXCEPT !.records[s].pinned_stopped = FALSE]
            ELSE V
    IN  unpin_stopped(
            IF W.records[s].pinned_started
            THEN unpin_started(unpin_dependencies(
                     [W EXCEPT !.records[s].pinned_started = FALSE], s, depends_on(s)))
            ELSE W)

pin_start(W, s) ==
    [W EXCEPT !.records[s].pinned_started = TRUE, !.records[s].pinned_stopped = FALSE]

pin_stop(W, s) ==
    [W EXCEPT !.records[s].pinned_stopped = TRUE, !.records[s].pinned_started = FALSE]

\* ------------------------------------------------------------------------
\* Process events: exec status, child exit, timer expiry
\* ------------------------------------------------------------------------
emergency_stop(W, s) ==
    LET W1 == IF ~ flag(s).auto_restart /\ W.records[s].start_explicit
              THEN release_without_stop([W EXCEPT !.records[s].start_explicit = FALSE], s)
              ELSE W
    IN  stopped(stop_dependents(forced_stop(W1, s), s).W, s)

exec_succeeded(W, s) ==
    IF record_type(s) = "PROCESS" /\ W.records[s].service_state = "STARTING"
    THEN started(W, s)
    ELSE W

exec_failed(W, s) ==
    LET st == W.records[s].service_state
    IN  IF st = "STARTING" \/ record_type(s) = "PROCESS"
        THEN failed_to_start([W EXCEPT !.records[s].stop_reason = "EXECFAILED"], s, FALSE, TRUE)
        ELSE IF st = "STOPPING"
             THEN stopped(W, s)
             ELSE W

do_smooth_recovery(W, s) ==
    LET R == restart_ps_process(W, s)
    IN  IF R.ret THEN R.W
        ELSE failed_to_start([W EXCEPT !.records[s].stop_reason = "TERMINATED"], s, FALSE, TRUE)

\* exit handling that takes an exit with code 0 of a started process for a normal stop
process_handle_exit_status_clean(W, s, status) ==
    LET st == W.records[s].service_state
    IN  IF st = "STARTING"
        THEN failed_to_start([W EXCEPT !.records[s].stop_reason = "FAILED"], s, FALSE, TRUE)
        ELSE IF st = "STOPPING"
             THEN IF stop_check_dependents(W, s) THEN bring_down(W, s) ELSE W
             ELSE IF /\ flag(s).smooth_recovery
                     /\ st = "STARTED"
                     /\ W.records[s].desired_state = "STARTED"
                  THEN do_smooth_recovery(W, s)
                  ELSE emergency_stop(
                           [W EXCEPT !.records[s].stop_reason =
                                         IF status = "EXIT0" THEN "NORMAL" ELSE "TERMINATED"], s)

process_handle_exit_status(W, s, status) ==
    LET st == W.records[s].service_state
    IN  IF st = "STARTING"
        THEN failed_to_start([W EXCEPT !.records[s].stop_reason = "FAILED"], s, FALSE, TRUE)
        ELSE IF st = "STOPPING"
             THEN IF stop_check_dependents(W, s) THEN bring_down(W, s) ELSE W
             ELSE IF /\ flag(s).smooth_recovery
                     /\ st = "STARTED"
                     /\ W.records[s].desired_state = "STARTED"
                  THEN do_smooth_recovery(W, s)
                  ELSE emergency_stop([W EXCEPT !.records[s].stop_reason = "TERMINATED"], s)

scripted_handle_exit_status(W, s, status) ==
    LET st == W.records[s].service_state
    IN  IF st = "STOPPING"
        THEN IF W.records[s].interrupting_start
             THEN LET W1 == [W EXCEPT !.records[s].stop_timer_armed = FALSE]
                      W2 == IF status = "EXIT1" THEN stopped(W1, s) ELSE bring_down(W1, s)
                  IN  [W2 EXCEPT !.records[s].interrupting_start = FALSE]
             ELSE stopped(W, s)
        ELSE IF status = "EXIT0"
             THEN started(W, s)
             ELSE IF status = "SIGINT" /\ flag(s).skippable
                  THEN started([W EXCEPT !.records[s].start_skipped = TRUE], s)
                  ELSE failed_to_start([W EXCEPT !.records[s].stop_reason = "FAILED"],
                                       s, FALSE, TRUE)

handle_exit_status(W, s, status) ==
    IF record_type(s) = "PROCESS"
    THEN process_handle_exit_status(W, s, status)
    ELSE scripted_handle_exit_status(W, s, status)

kill_with_fire(W, s) ==
    IF W.records[s].pid # -1 THEN kill_pg(W, s, "SIGKILL") ELSE W

timer_expired(W, s) ==
    LET W1 == [W EXCEPT !.records[s].stop_timer_armed = FALSE]
    IN  IF W1.records[s].service_state = "STOPPING"
        THEN kill_with_fire(W1, s)
        ELSE IF W1.records[s].pid # -1
             THEN failed_to_start([interrupt_start(W1, s).W EXCEPT
                                       !.records[s].stop_reason = "TIMEDOUT"],
                                  s, FALSE, FALSE)
             ELSE do_restart(W1, s)

\* ------------------------------------------------------------------------
\* Configurations: the service descriptions the set is loaded with
\* ------------------------------------------------------------------------
Internal == [type |-> "INTERNAL", flags |-> NoFlags]
Process  == [type |-> "PROCESS",  flags |-> NoFlags]
Scripted == [type |-> "SCRIPTED", flags |-> NoFlags]

With(d, f) == [d EXCEPT !.flags = [k \in DOMAIN NoFlags |-> IF k \in f THEN ~ NoFlags[k] ELSE NoFlags[k]]]

\* test_scripted_start_fail: s3 -> {p, s2}, s2 -> p, all regular; p scripted with stop command
ConfChain ==
    [svc |-> [p |-> With(Scripted, {"stop_command"}), s2 |-> Internal, s3 |-> Internal],
     dep_type |-> <<"REGULAR", "REGULAR", "REGULAR">>,
     commands |-> Services, pinnable |-> {}]

\* test_proc_start_timeout2: non-hard links onto a scripted service with a start timeout
ConfWaits ==
    [svc |-> [p |-> With(Scripted, {"start_timeout", "skippable"}), s2 |-> Internal,
              s3 |-> Internal],
     dep_type |-> <<"WAITS_FOR", "SOFT", "NONE">>,
     commands |-> Services, pinnable |-> {}]

\* an auto-restarting process service p that s2 depends on by a milestone link
ConfProc ==
    [svc |-> [p |-> With(Process, {"auto_restart", "restart_delay", "start_interruptible"}),
              s2 |-> Internal, s3 |-> Internal],
     dep_type |-> <<"MILESTONE", "NONE", "NONE">>,
     commands |-> {"p", "s2"}, pinnable |-> {}]

\* pinning: s2 -> p, where s2 can be pinned; s3 stays unloaded
ConfPin ==
    [svc |-> [p |-> Process, s2 |-> Internal, s3 |-> Internal],
     dep_type |-> <<"REGULAR", "NONE", "NONE">>,
     commands |-> {"p", "s2"}, pinnable |-> {"s2"}]

\* a process service s2 that depends on an internal service p
ConfDep ==
    [svc |-> [p |-> Internal, s2 |-> Process, s3 |-> Internal],
     dep_type |-> <<"REGULAR", "NONE", "NONE">>,
     commands |-> {"p", "s2"}, pinnable |-> {}]

\* test_term_via_stop: a process service p and an internal service s2, neither
\* with dependencies or dependents
ConfIso ==
    [svc |-> [p |-> Process, s2 |-> Internal, s3 |-> Internal],
     dep_type |-> <<"NONE", "NONE", "NONE">>,
     commands |-> {"p", "s2"}, pinnable |-> {}]

\* test_waitsfor_restart: the internal service s2 waits for the process service p
ConfWaitsProc ==
    [svc |-> [p |-> Process, s2 |-> Internal, s3 |-> Internal],
     dep_type |-> <<"WAITS_FOR", "NONE", "NONE">>,
     commands |-> {"p", "s2"}, pinnable |-> {}]

\* test_proc_term_restart2: the internal service s2 waits for the auto-restarting
\* process service p
ConfRestart ==
    [svc |-> [p |-> With(Process, {"auto_restart", "restart_delay"}),
              s2 |-> Internal, s3 |-> Internal],
     dep_type |-> <<"WAITS_FOR", "NONE", "NONE">>,
     commands |-> {"p", "s2"}, pinnable |-> {}]

\* test_proc_smooth_recovery1: a process service p with smooth recovery and a
\* restart delay, restarts limited per interval
ConfSmooth ==
    [svc |-> [p |-> With(Process, {"smooth_recovery", "restart_delay", "restart_limit"}),
              s2 |-> Internal, s3 |-> Internal],
     dep_type |-> <<"NONE", "NONE", "NONE">>,
     commands |-> {"p"}, pinnable |-> {}]

\* test_proc_smooth_recovery2: smooth recovery with restart delay 0
ConfSmoothNow ==
    [svc |-> [p |-> With(Process, {"smooth_recovery", "restart_limit"}),
              s2 |-> Internal, s3 |-> Internal],
     dep_type |-> <<"NONE", "NONE", "NONE">>,
     commands |-> {"p"}, pinnable |-> {}]

\* the console: s2 waits for the scripted service p and needs the console to
\* start, s3 needs the console to start and keeps it while it is STARTED
ConfConsole ==
    [svc |-> [p |-> Scripted,
              s2 |-> With(Internal, {"starts_on_console"}),
              s3 |-> With(Internal, {"starts_on_console", "runs_on_console"})],
     dep_type |-> <<"WAITS_FOR", "NONE", "NONE">>,
     commands |-> Services, pinnable |-> {}]

\* the console: p keeps the console while it is STARTED; s2 waits for p and runs
\* its start script on the console
ConfConsoleScript ==
    [svc |-> [p |-> With(Internal, {"starts_on_console", "runs_on_console"}),
              s2 |-> With(Scripted, {"starts_on_console"}),
              s3 |-> Internal],
     dep_type |-> <<"WAITS_FOR", "NONE", "NONE">>,
     commands |-> {"p", "s2"}, pinnable |-> {}]

\* pinning a dependency: s2 -> p by a regular link, where p can be pinned
ConfPinDep ==
    [svc |-> [p |-> Internal, s2 |-> Internal, s3 |-> Internal],
     dep_type |-> <<"REGULAR", "NONE", "NONE">>,
     commands |-> {"p", "s2"}, pinnable |-> {"p"}]

Configs ==
    {ConfChain, ConfWaits, ConfProc, ConfPin, ConfDep, ConfIso, ConfWaitsProc, ConfRestart,
     ConfSmooth, ConfSmoothNow, ConfConsole, ConfConsoleScript, ConfPinDep}

\* ------------------------------------------------------------------------
\* Initial state: every record as constructed, nothing queued
\* ------------------------------------------------------------------------
InitRecord ==
    [service_state |-> "STOPPED", desired_state |-> "STOPPED", required_by |-> 0,
     start_explicit |-> FALSE, stop_reason |-> "NORMAL", restarting |-> FALSE,
     force_stop |-> FALSE, start_failed |-> FALSE, start_skipped |-> FALSE,
     waiting_for_deps |-> FALSE,
     prop_require |-> FALSE, prop_release |-> FALSE, prop_failure |-> FALSE,
     prop_start |-> FALSE, prop_stop |-> FALSE,
     pinned_started |-> FALSE, pinned_stopped |-> FALSE,
     pid |-> -1, waiting_for_execstat |-> FALSE, stop_timer_armed |-> FALSE,
     waiting_restart_timer |-> FALSE, interrupting_start |-> FALSE,
     delay_elapsed |-> FALSE, restart_interval_count |-> 0, last_sig |-> "NONE",
     have_console |-> FALSE, waiting_for_console |-> FALSE]

InitIn(cs) ==
    /\ conf \in cs
    /\ records = [s \in Services |-> InitRecord]
    /\ links = [l \in LinkIds |-> [waiting_on |-> FALSE, holding_acq |-> FALSE]]
    /\ prop_queue = <<>>
    /\ stop_queue = <<>>
    /\ console_queue = <<>>
    /\ active_services = 0
    /\ events = {}
    /\ forks = 0
    /\ stop_cmd = "none"
    /\ restart_cmd = "none"
    /\ start_cmd = <<>>
    /\ drain_steps = 0

Init == InitIn(Configs)

\* ------------------------------------------------------------------------
\* Actions
\* ------------------------------------------------------------------------
Quiescent == prop_queue = <<>> /\ stop_queue = <<>>

\* the world a command or event handler starts from
World ==
    [records |-> records, links |-> links, prop_queue |-> prop_queue,
     stop_queue |-> stop_queue, console_queue |-> console_queue,
     active_services |-> active_services, events |-> {}, forks |-> 0]

\* the world a queue-processing step continues from
DrainWorld == [World EXCEPT !.events = events, !.forks = forks]

\* active_services and required_by are ints that the code never clamps; the model
\* follows them down to -MaxDrift and up to MaxDrift above the number of records.
MaxDrift == 1

CounterRange == (0 - MaxDrift)..(Cardinality(Services) + MaxDrift)

\* a drain is followed for this many queue-processing steps
MaxDrainSteps == 12

Commit(W) ==
    /\ W.active_services \in CounterRange
    /\ drain_steps < MaxDrainSteps
    /\ drain_steps' = IF Quiescent \/ (W.prop_queue = <<>> /\ W.stop_queue = <<>>)
                      THEN 0
                      ELSE drain_steps + 1
    /\ \A s \in Services : W.records[s].required_by \in CounterRange
    /\ records' = W.records
    /\ links' = W.links
    /\ prop_queue' = W.prop_queue
    /\ stop_queue' = W.stop_queue
    /\ console_queue' = W.console_queue
    /\ active_services' = W.active_services
    /\ events' = W.events
    /\ forks' = W.forks
    /\ UNCHANGED conf

\* what a start command given to s runs into: s itself is STOPPING, or s is
\* STOPPED and waits for a service that a stop command has put into a STOPPING
\* that cannot be interrupted, or s is STOPPED without such a wait
StartContext(s) ==
    IF records[s].service_state = "STOPPING" THEN <<s, "STOPPING">>
    ELSE IF /\ records[s].service_state = "STOPPED"
            /\ \E l \in LinkIds :
                  /\ LinkFrom[l] = s
                  /\ dep_type(l) = "WAITS_FOR"
                  /\ LinkTo[l] = stop_cmd
                  /\ records[LinkTo[l]].service_state = "STOPPING"
                  /\ ~ can_interrupt_stop(World, LinkTo[l])
         THEN <<s, "WAITS_FOR">>
         ELSE IF records[s].service_state = "STOPPED" THEN <<s, "STOPPED">> ELSE <<>>

\* control command: start [--pin] service
Start(s, do_pin) ==
    /\ Quiescent
    /\ s \in conf.commands
    /\ do_pin => s \in conf.pinnable
    /\ Commit(start(IF do_pin THEN pin_start(World, s) ELSE World, s, TRUE))
    /\ stop_cmd' = "none"
    /\ restart_cmd' = "none"
    /\ start_cmd' = StartContext(s)

\* control commands: stop [--pin] service (bring_down) and release service (~ bring_down)
Stop(s, bring_down_arg, do_pin) ==
    /\ Quiescent
    /\ s \in conf.commands
    /\ do_pin => s \in conf.pinnable
    /\ Commit(stop(IF do_pin THEN pin_stop(World, s) ELSE World, s, bring_down_arg))
    /\ stop_cmd' = IF records[s].service_state = "STARTED" THEN s ELSE "none"
    /\ restart_cmd' = "none"
    /\ start_cmd' = <<>>

Restart(s) ==
    /\ Quiescent
    /\ s \in conf.commands
    /\ records[s].service_state = "STARTED"
    /\ Commit(restart(World, s))
    /\ stop_cmd' = "none"
    /\ restart_cmd' = s
    /\ start_cmd' = <<>>

Unpin(s) ==
    /\ Quiescent
    /\ records[s].pinned_started \/ records[s].pinned_stopped
    /\ Commit(unpin(World, s))
    /\ stop_cmd' = "none"
    /\ restart_cmd' = "none"
    /\ start_cmd' = <<>>

\* service_set::process_queues, one iteration of the inner propagation loop
DoPropagation ==
    /\ prop_queue # <<>>
    /\ Commit(do_propagation([DrainWorld EXCEPT !.prop_queue = Tail(@)], Head(prop_queue)))
    /\ UNCHANGED <<stop_cmd, restart_cmd, start_cmd>>

\* service_set::process_queues, one transition once the propagation queue is empty
ExecuteTransition ==
    /\ prop_queue = <<>>
    /\ stop_queue # <<>>
    /\ Commit(execute_transition([DrainWorld EXCEPT !.stop_queue = Tail(@)], Head(stop_queue)))
    /\ UNCHANGED <<stop_cmd, restart_cmd, start_cmd>>

\* exec status pipe: the child's exec succeeded
ExecSucceeded(s) ==
    /\ Quiescent
    /\ records[s].waiting_for_execstat
    /\ Commit(exec_succeeded([World EXCEPT !.records[s].waiting_for_execstat = FALSE], s))
    /\ UNCHANGED <<stop_cmd, restart_cmd, start_cmd>>

\* exec status pipe: the child reported an exec failure (and is gone)
ExecFailed(s) ==
    /\ Quiescent
    /\ records[s].waiting_for_execstat
    /\ Commit(exec_failed([World EXCEPT !.records[s].waiting_for_execstat = FALSE,
                                        !.records[s].pid = -1,
                                        !.records[s].last_sig = "NONE",
                                        !.records[s].stop_timer_armed = FALSE], s))
    /\ UNCHANGED stop_cmd
    /\ restart_cmd' = "none"
    /\ start_cmd' = <<>>

ExitStatuses == {"EXIT0", "EXIT1", "SIGINT", "SIGTERM"}

\* child watcher: the record's process terminated; elapsed tells whether it had run
\* for at least the restart delay
ProcessExit(s, status, elapsed) ==
    /\ Quiescent
    /\ records[s].pid # -1
    /\ ~ records[s].waiting_for_execstat
    /\ elapsed => flag(s).restart_delay
    /\ Commit(handle_exit_status([World EXCEPT !.records[s].pid = -1,
                                               !.records[s].last_sig = "NONE",
                                               !.records[s].stop_timer_armed = FALSE,
                                               !.records[s].delay_elapsed = elapsed],
                                 s, status))
    /\ stop_cmd' = IF records[s].service_state = "STOPPING" THEN stop_cmd ELSE "none"
    /\ restart_cmd' = IF records[s].service_state = "STOPPING" THEN restart_cmd ELSE "none"
    /\ start_cmd' = IF records[s].service_state = "STOPPING" THEN start_cmd ELSE <<>>

\* time passes: the restarts counted for the record fall out of the restart interval
RestartIntervalPassed(s) ==
    /\ Quiescent
    /\ flag(s).restart_limit
    /\ records[s].restart_interval_count > 0
    /\ records' = [records EXCEPT ![s].restart_interval_count = 0]
    /\ UNCHANGED <<links, prop_queue, stop_queue, console_queue, active_services, events, forks,
                   stop_cmd, restart_cmd, start_cmd, drain_steps, conf>>

\* the console log has let go of the console: the head of the console queue gets it
ConsoleAvailable ==
    /\ Quiescent
    /\ console_queue # <<>>
    /\ \A s \in Services : ~ records[s].have_console
    /\ Commit(pull_console_queue(World))
    /\ UNCHANGED stop_cmd
    /\ restart_cmd' = "none"
    /\ start_cmd' = <<>>

TimerExpired(s) ==
    /\ Quiescent
    /\ records[s].stop_timer_armed \/ records[s].waiting_restart_timer
    /\ Commit(timer_expired(World, s))
    /\ UNCHANGED stop_cmd
    /\ restart_cmd' = "none"
    /\ start_cmd' = <<>>

Next ==
    \/ \E s \in Services, do_pin \in BOOLEAN : Start(s, do_pin)
    \/ \E s \in Services, b \in BOOLEAN, do_pin \in BOOLEAN : Stop(s, b, do_pin)
    \/ \E s \in Services : Restart(s)
    \/ \E s \in Services : Unpin(s)
    \/ DoPropagation
    \/ ExecuteTransition
    \/ \E s \in Services : ExecSucceeded(s)
    \/ \E s \in Services : ExecFailed(s)
    \/ \E s \in Services, status \in ExitStatuses, elapsed \in BOOLEAN :
            ProcessExit(s, status, elapsed)
    \/ \E s \in Services : TimerExpired(s)
    \/ \E s \in Services : RestartIntervalPassed(s)
    \/ ConsoleAvailable

Spec == Init /\ [][Next]_vars

\* no record is pinned or required, every record is STOPPED and no service is
\* counted active
AllInactive ==
    /\ active_services = 0
    /\ \A t \in Services :
          /\ records[t].service_state = "STOPPED"
          /\ records[t].required_by = 0
          /\ ~ records[t].pinned_started
          /\ ~ records[t].pinned_stopped

\* start(s, true) followed at once by stop(s, true), with no process_queues()
\* between the two calls, given while nothing is active; start_cmd remembers
\* the withdrawn start
StartStop(s) ==
    /\ Quiescent
    /\ AllInactive
    /\ s \in conf.commands
    /\ Commit(stop(start(World, s, TRUE), s, TRUE))
    /\ stop_cmd' = "none"
    /\ restart_cmd' = "none"
    /\ start_cmd' = <<s, "WITHDRAWN">>

NextUndrained ==
    \/ Next
    \/ \E s \in Services : StartStop(s)

\* the service graphs in which commands are also given back to back
ConfigsUndrained ==
    {ConfChain, ConfDep, ConfPinDep, ConfSmoothNow, ConfConsoleScript}

SpecUndrained == InitIn(ConfigsUndrained) /\ [][NextUndrained]_vars

\* ------------------------------------------------------------------------
\* Properties
\* ------------------------------------------------------------------------
TypeOK ==
    /\ \A s \in Services :
          /\ records[s].service_state \in ServiceStates
          /\ records[s].desired_state \in {"STOPPED", "STARTED"}
          /\ records[s].stop_reason \in StopReasons
          /\ records[s].required_by \in Int
    /\ active_services \in Int

HoldingIn(s) == {l \in LinkIds : dep_type(l) # "NONE" /\ LinkTo[l] = s /\ links[l].holding_acq}

\* C1: after every drain, required_by of every record equals the number of incoming
\* links with holding_acq set, plus one if start_explicit is set.
C1_RequiredByBalanced ==
    Quiescent =>
        \A s \in Services :
            records[s].required_by =
                Cardinality(HoldingIn(s)) + (IF records[s].start_explicit THEN 1 ELSE 0)

IsHardLink(l) == dep_type(l) \in {"REGULAR", "MILESTONE"}

\* C2: after every drain, a hard link whose dependent is STARTING or STARTED and
\* which holds its acquisition has a dependency that is STARTING or STARTED.
C2_HardDepRunning ==
    Quiescent =>
        \A l \in LinkIds :
            (/\ IsHardLink(l)
             /\ records[LinkFrom[l]].service_state \in {"STARTING", "STARTED"}
             /\ links[l].holding_acq)
            => records[LinkTo[l]].service_state \in {"STARTING", "STARTED"}

\* C3: after every drain, active_services equals the number of records whose
\* required_by is greater than 0.
C3_ActiveCount ==
    Quiescent =>
        active_services = Cardinality({s \in Services : records[s].required_by > 0})


State(s) == records[s].service_state

\* every service is STOPPED or STARTED and nothing is queued
AtRest == Quiescent /\ \A s \in Services : State(s) \in {"STOPPED", "STARTED"}

\* an event that is sure to reach record s: the exec status of a launched child, the
\* exit of a signalled child or of a script, the expiry of an armed timer
Settling(s) ==
    \/ records[s].waiting_for_execstat
    \/ records[s].pid # -1 /\ (records[s].last_sig # "NONE" \/ record_type(s) = "SCRIPTED")
    \/ records[s].stop_timer_armed
    \/ records[s].waiting_restart_timer

\* C4: a record in STOPPING is never left stranded, with both queues drained and no
\* event due for any record that could carry it on to STOPPED.
C4_StoppingNeverStranded ==
    (\E s \in Services : State(s) = "STOPPING") =>
        ~ Quiescent \/ \E t \in Services : Settling(t)

DepsOf(A) == {l \in LinkIds : dep_type(l) # "NONE" /\ LinkFrom[l] = A}

HeldByOther(d, A) ==
    \E l \in HoldingIn(d) : LinkFrom[l] # A /\ State(LinkFrom[l]) # "STOPPED"

RequiredByExplicit(d, A) ==
    \/ records[d].start_explicit
    \/ \E l \in HoldingIn(d) :
          /\ LinkFrom[l] # A
          /\ records[LinkFrom[l]].start_explicit
          /\ State(LinkFrom[l]) = "STARTED"

\* C5: once a stop command given to a started service A has run to rest with A
\* STOPPED, every dependency of A that is neither explicitly activated nor held by
\* another active dependent is STOPPED, and every dependency still required by
\* another explicitly activated service is STARTED.
C5_StopReleasesDependencies ==
    \A A \in Services :
        (AtRest /\ stop_cmd = A /\ State(A) = "STOPPED") =>
            \A l \in DepsOf(A) :
                /\ (~ records[LinkTo[l]].start_explicit /\ ~ HeldByOther(LinkTo[l], A))
                       => State(LinkTo[l]) = "STOPPED"
                /\ RequiredByExplicit(LinkTo[l], A) => State(LinkTo[l]) = "STARTED"

DependentLinks(s) == {l \in LinkIds : dep_type(l) # "NONE" /\ LinkTo[l] = s}

AllDependentsStopped(s) == \A l \in DependentLinks(s) : State(LinkFrom[l]) = "STOPPED"

\* a step taken for a command or event addressed to another record than s, or a
\* step of the queue drain
OtherStep(s) ==
    \/ \E t \in Services \ {s}, b \in BOOLEAN, do_pin \in BOOLEAN :
            Start(t, do_pin) \/ Stop(t, b, do_pin)
    \/ \E t \in Services \ {s} :
            Restart(t) \/ Unpin(t) \/ ExecSucceeded(t) \/ ExecFailed(t) \/ TimerExpired(t)
    \/ \E t \in Services \ {s}, status \in ExitStatuses, elapsed \in BOOLEAN :
            ProcessExit(t, status, elapsed)
    \/ DoPropagation
    \/ ExecuteTransition

\* C6: an explicitly activated STARTED record that has no dependencies of its own
\* stays STARTED and explicitly activated in every step not addressed to it, and
\* once all its dependents have stopped its required_by is 1.
C6_ExplicitSurvivesDependents ==
    [][\A s \in Services :
          (records[s].start_explicit /\ State(s) = "STARTED" /\ depends_on(s) = <<>>) =>
              /\ OtherStep(s) =>
                     records'[s].service_state = "STARTED" /\ records'[s].start_explicit
              /\ (Quiescent /\ DependentLinks(s) # {} /\ AllDependentsStopped(s)) =>
                     records[s].required_by = 1]_vars

\* p failed to start for a reason of its own in the current handler
OwnFailure(p) ==
    /\ <<p, "FAILEDSTART">> \in events
    /\ records[p].stop_reason \in {"FAILED", "EXECFAILED", "TIMEDOUT"}

HardFrom(p) == {LinkFrom[l] : l \in {k \in LinkIds : IsHardLink(k) /\ LinkTo[k] = p}}

HardDependents(p) == HardFrom(p) \cup UNION {HardFrom(d) : d \in HardFrom(p)}

NothingActive == \A s \in Services : records[s].required_by = 0 /\ State(s) = "STOPPED"

\* C7: after the drain that follows a start failure of p, p is STOPPED (or still
\* STOPPING its interrupted child), no hard dependent of p is left STARTING, those
\* that failed are STOPPED with reason DEPFAILED, and active_services is 0 when
\* nothing else is active.
C7_DependencyFailure ==
    Quiescent =>
        \A p \in Services : OwnFailure(p) =>
            /\ State(p) \in {"STOPPED", "STOPPING"}
            /\ \A d \in HardDependents(p) :
                  /\ State(d) # "STARTING"
                  /\ <<d, "FAILEDSTART">> \in events =>
                         State(d) = "STOPPED" /\ records[d].stop_reason = "DEPFAILED"
            /\ NothingActive => active_services = 0

\* C8: after every drain, a record whose start attempt failed is STOPPED (or still
\* STOPPING its interrupted child) and holds no acquisition on its outgoing links;
\* once STOPPED its start_explicit is cleared and its required_by is 0.
C8_FailedStartReleases ==
    Quiescent =>
        \A s \in Services : records[s].start_failed =>
            /\ State(s) \in {"STOPPED", "STOPPING"}
            /\ \A l \in LinkIds : LinkFrom[l] = s => ~ links[l].holding_acq
            /\ State(s) = "STOPPED" =>
                   ~ records[s].start_explicit /\ records[s].required_by = 0

SoftLink(l) == dep_type(l) \in {"WAITS_FOR", "SOFT"}

\* the dependency of link l fails to start, or reaches STOPPED, in this step
SoftDepFails(l) ==
    \/ ~ records[LinkTo[l]].start_failed /\ records'[LinkTo[l]].start_failed
    \/ State(LinkTo[l]) # "STOPPED" /\ records'[LinkTo[l]].service_state = "STOPPED"

\* after the step the dependent of link l no longer waits, has not failed, and is
\* STARTED or queued to continue its start
SoftWaitBroken(l) ==
    /\ ~ links'[l].waiting_on
    /\ ~ records'[LinkFrom[l]].start_failed
    /\ \/ records'[LinkFrom[l]].service_state = "STARTED"
       \/ /\ records'[LinkFrom[l]].service_state = "STARTING"
          /\ InSeq(LinkFrom[l], stop_queue')

\* after a drain: no wait on a STOPPED dependency is left, and a dependent that is
\* still STARTING and held back by its dependencies (not by the console queue or by
\* its own process) has a dependency that is itself on its way
SoftWaitAtRest(l) ==
    /\ links[l].waiting_on => State(LinkTo[l]) # "STOPPED"
    /\ (/\ State(LinkFrom[l]) = "STARTING"
        /\ records[LinkFrom[l]].waiting_for_deps
        /\ ~ records[LinkFrom[l]].waiting_for_console)
           => State(LinkTo[l]) \in {"STARTING", "STOPPING"}

\* C9: when the dependency of a waits-for or soft link fails to start or stops while
\* its STARTING dependent waits on it, the same handler breaks the wait without
\* failing the dependent, which is STARTED or queued to continue; after every drain
\* no such dependent is left STARTING behind a STOPPED or STARTED dependency.
C9_SoftFailureBreaksWait ==
    [][\A l \in LinkIds : SoftLink(l) =>
          /\ (links[l].waiting_on /\ State(LinkFrom[l]) = "STARTING" /\ SoftDepFails(l))
                 => SoftWaitBroken(l)
          /\ Quiescent' => SoftWaitAtRest(l)']_vars

\* the start timeout of p expired while s2 waited for it over a waits-for link, and
\* s2 went on to STARTED
C9_Witness ==
    /\ Quiescent
    /\ dep_type(1) = "WAITS_FOR"
    /\ records["p"].start_failed
    /\ records["p"].stop_reason = "TIMEDOUT"
    /\ <<"p", "FAILEDSTART">> \in events
    /\ <<"s2", "STARTED">> \in events
    /\ State("s2") = "STARTED"
    /\ ~ records["s2"].start_failed

\* C10: while pinned_started stays set a STARTED record stays STARTED, and while
\* pinned_stopped stays set a STOPPED record stays STOPPED.
C10_PinnedStateHeld ==
    [][\A s \in Services :
          /\ (records[s].pinned_started /\ records'[s].pinned_started /\ State(s) = "STARTED")
                 => records'[s].service_state = "STARTED"
          /\ (records[s].pinned_stopped /\ records'[s].pinned_stopped /\ State(s) = "STOPPED")
                 => records'[s].service_state = "STOPPED"]_vars

\* C11: unpin of a pinned_started record that is STARTED, not explicitly activated
\* and required by nothing carries out the remembered stop: after the unpin
\* command the record is STOPPING or STOPPED.
C11_UnpinCarriesOutStop ==
    [][\A s \in Services :
          (/\ Unpin(s)
           /\ records[s].pinned_started
           /\ State(s) = "STARTED"
           /\ ~ records[s].start_explicit
           /\ records[s].required_by = 0)
          => records'[s].service_state \in {"STOPPING", "STOPPED"}]_vars

\* the start of s is under way and cannot be interrupted
StartCommitted(s) ==
    /\ State(s) = "STARTING"
    /\ ~ records[s].waiting_for_deps
    /\ ~ can_interrupt_start(World, s)

\* C12: a stop command that reaches a record whose start cannot be interrupted
\* latches desired_state = STOPPED, and a record that completes its start with
\* desired_state STOPPED (and no pin) does not come to rest in STARTED.
C12_StopLatchedDuringStart ==
    [][\A s \in Services :
          /\ (StartCommitted(s) /\ Stop(s, TRUE, FALSE))
                 => records'[s].desired_state = "STOPPED"
          /\ (/\ StartCommitted(s)
              /\ records[s].desired_state = "STOPPED"
              /\ ~ records[s].pinned_started)
                 => records'[s].service_state # "STARTED"]_vars

OutLinks(s) == {l \in LinkIds : dep_type(l) # "NONE" /\ LinkFrom[l] = s}

HardDependentLinks(s) == {l \in LinkIds : IsHardLink(l) /\ LinkTo[l] = s}

\* the restart command itself leaves start_explicit of s and every holding_acq on
\* the links from and to s as they were
RestartCommandFrame(s) ==
    /\ records'[s].start_explicit = records[s].start_explicit
    /\ \A l \in OutLinks(s) \cup DependentLinks(s) :
          links'[l].holding_acq = links[l].holding_acq

\* a queue-processing step of the restart of s keeps start_explicit of s, the
\* acquisitions s holds, and the acquisitions and explicit activation of its hard
\* dependents
RestartDrainFrame(s) ==
    /\ records'[s].start_explicit = records[s].start_explicit
    /\ \A l \in OutLinks(s) : links'[l].holding_acq = links[l].holding_acq
    /\ \A l \in HardDependentLinks(s) :
          /\ links[l].holding_acq => links'[l].holding_acq
          /\ records[LinkFrom[l]].start_explicit => records'[LinkFrom[l]].start_explicit

\* C13: restart of a STARTED record changes neither its start_explicit nor the
\* holding_acq of its own links; while the restart of a record that is still
\* required is carried out its hard dependents keep their acquisitions and
\* explicit activation; and once the record is STARTED again and the set is at
\* rest the dependents holding it are STARTED.
C13_RestartPreservesLinks ==
    [][\A s \in Services :
          /\ Restart(s) => RestartCommandFrame(s)
          /\ (/\ restart_cmd = s
              /\ records[s].required_by > 0
              /\ DoPropagation \/ ExecuteTransition) => RestartDrainFrame(s)
          /\ (restart_cmd' = s /\ AtRest' /\ records'[s].service_state = "STARTED") =>
                \A l \in HardDependentLinks(s) :
                    links'[l].holding_acq => records'[LinkFrom[l]].service_state = "STARTED"]_vars

Isolated(s) == depends_on(s) = <<>> /\ dependents(s) = <<>>

\* C14: once a stop command given to a started record without dependencies or
\* dependents has run to rest, the record is STOPPED with required_by 0 and
\* start_explicit cleared.
C14_StartStopIsolated ==
    \A s \in Services :
        (Isolated(s) /\ stop_cmd = s /\ AtRest) =>
            /\ State(s) = "STOPPED"
            /\ records[s].required_by = 0
            /\ ~ records[s].start_explicit

\* an isolated process service was started, stopped by command, and its process
\* has exited
C14_Witness ==
    /\ Isolated("p")
    /\ stop_cmd = "p"
    /\ AtRest
    /\ <<"p", "STOPPED">> \in events
    /\ records["p"].stop_reason = "NORMAL"

\* C15: in every reachable state, a record with start_explicit set has
\* required_by >= 1.
C15_ExplicitIsRequired ==
    \A s \in Services : records[s].start_explicit => records[s].required_by >= 1

\* an explicitly activated record that is also held by a dependent
C15_Witness ==
    \E l \in LinkIds :
        /\ links[l].holding_acq
        /\ records[LinkTo[l]].start_explicit
        /\ records[LinkTo[l]].required_by = 2
        /\ State(LinkTo[l]) = "STARTED"

\* the activation count of every record and the acquisition flag of every link
Acquisitions(W) ==
    [required_by |-> [t \in Services |-> W.records[t].required_by],
     holding_acq |-> [l \in LinkIds |-> W.links[l].holding_acq]]

\* start(activate = true) applied to the world Once that one start() has left
StartAgainSame(Once, s) == Acquisitions(start(Once, s, TRUE)) = Acquisitions(Once)

\* C16: in any state, start(activate = true) issued twice leaves the same
\* required_by on every record and the same holding_acq on every link as issued
\* once.
C16_StartIdempotent ==
    \A s \in Services : StartAgainSame(start(World, s, TRUE), s)

\* a second start command can be given: the record is explicitly activated,
\* started, and holds an acquisition on an outgoing link
C16_Witness ==
    \E l \in LinkIds :
        /\ Quiescent
        /\ LinkFrom[l] \in conf.commands
        /\ records[LinkFrom[l]].start_explicit
        /\ State(LinkFrom[l]) = "STARTED"
        /\ links[l].holding_acq
        /\ records[LinkTo[l]].required_by = 1

\* the start command in force was given to the source of the waits-for link l
\* while its target was STOPPING after a stop command, not interruptibly
WaitsRestart(l) ==
    /\ dep_type(l) = "WAITS_FOR"
    /\ start_cmd = <<LinkFrom[l], "WAITS_FOR">>

ProcessExits(s) == \E status \in ExitStatuses, elapsed \in BOOLEAN : ProcessExit(s, status, elapsed)

\* C17: when t, which waits for p, is started while p is STOPPING after a stop
\* command and not interruptibly, p keeps stopping and t stays STARTING; the
\* exit of p's process takes p to STARTING again; p's exec success makes p
\* STARTED; and once everything has settled both p and t are STARTED.
C17_WaitsForRestart ==
    [][\A l \in LinkIds :
          /\ (Start(LinkFrom[l], FALSE) /\ WaitsRestart(l)') =>
                 State(LinkTo[l])' = "STOPPING" /\ State(LinkFrom[l])' = "STARTING"
          /\ (WaitsRestart(l) /\ State(LinkTo[l]) = "STOPPING" /\ ~ ProcessExits(LinkTo[l])) =>
                 State(LinkTo[l])' = "STOPPING"
          /\ (WaitsRestart(l)' /\ State(LinkTo[l])' = "STOPPING") =>
                 State(LinkFrom[l])' = "STARTING"
          /\ (WaitsRestart(l) /\ State(LinkTo[l]) = "STOPPING" /\ ProcessExits(LinkTo[l])) =>
                 State(LinkTo[l])' = "STARTING" /\ State(LinkFrom[l])' = "STARTING"
          /\ (WaitsRestart(l) /\ record_type(LinkTo[l]) = "PROCESS" /\ ExecSucceeded(LinkTo[l])) =>
                 State(LinkTo[l])' = "STARTED"
          /\ (WaitsRestart(l)' /\ AtRest') =>
                 State(LinkTo[l])' = "STARTED" /\ State(LinkFrom[l])' = "STARTED"]_vars

\* test_waitsfor_restart at its end: t was started against the stopping p, p's
\* process has exited and been launched again, and both have started
C17_Witness ==
    /\ WaitsRestart(1)
    /\ record_type("p") = "PROCESS"
    /\ AtRest
    /\ State("p") = "STARTED"
    /\ State("s2") = "STARTED"
    /\ links[1].holding_acq

\* the start command in force was given to s while s was STOPPING
StartedWhileStopping(s) == start_cmd = <<s, "STOPPING">>

\* both queues are drained and no exec status, child exit or timer expiry is due
NothingDue == Quiescent /\ \A t \in Services : ~ Settling(t)

AutoRestartDelayed(s) ==
    record_type(s) = "PROCESS" /\ flag(s).auto_restart /\ flag(s).restart_delay

\* exactly one timer of s is armed, its restart timer, and no process is launched
OnlyRestartTimer(s) ==
    /\ records[s].waiting_restart_timer
    /\ ~ records[s].stop_timer_armed
    /\ records[s].pid = -1
    /\ ~ records[s].waiting_for_execstat

NoTimer(s) == ~ records[s].waiting_restart_timer /\ ~ records[s].stop_timer_armed

\* C19: when the process of a STARTED, still required process service with
\* auto_restart and a restart delay exits before the delay has passed, the
\* record goes to STARTING; once the queues are drained exactly its restart
\* timer is armed; it is not launched before the timer expires; the expiry
\* launches it, and the exec success makes it STARTED with no timer armed.
C19_AutoRestartAfterDelay ==
    [][\A s \in Services : AutoRestartDelayed(s) =>
          /\ (/\ State(s) = "STARTED"
              /\ records[s].required_by > 0
              /\ \E status \in ExitStatuses : ProcessExit(s, status, FALSE)) =>
                 State(s)' = "STARTING" /\ records'[s].pid = -1
          /\ (/\ Quiescent'
              /\ <<s, "STOPPED">> \in events'
              /\ ~ records'[s].delay_elapsed
              /\ State(s)' = "STARTING") => OnlyRestartTimer(s)'
          /\ (records[s].waiting_restart_timer /\ ~ TimerExpired(s)) =>
                 records'[s].pid = -1 /\ ~ records'[s].waiting_for_execstat
          /\ (OnlyRestartTimer(s) /\ State(s) = "STARTING" /\ TimerExpired(s)) =>
                 /\ State(s)' = "STARTING"
                 /\ records'[s].waiting_for_execstat
                 /\ NoTimer(s)'
          /\ (/\ State(s) = "STARTING"
              /\ records[s].required_by > 0
              /\ records[s].desired_state = "STARTED"
              /\ ExecSucceeded(s)) =>
                 State(s)' = "STARTED" /\ NoTimer(s)']_vars

\* test_proc_term_restart2 after the exit: p, held only by the waits-for
\* dependent s2, is STARTING with only its restart timer armed
C19_Witness ==
    /\ AutoRestartDelayed("p")
    /\ dep_type(1) = "WAITS_FOR"
    /\ links[1].holding_acq
    /\ ~ records["p"].start_explicit
    /\ records["p"].required_by = 1
    /\ Quiescent
    /\ <<"p", "STOPPED">> \in events
    /\ State("p") = "STARTING"
    /\ OnlyRestartTimer("p")

\* no dependent of s is active or holds s
NoActiveDependent(s) ==
    \A l \in DependentLinks(s) : State(LinkFrom[l]) = "STOPPED" /\ ~ links[l].holding_acq

\* C20: a stop command given to a STARTED record with auto_restart set and no
\* active dependent takes required_by to 0 and the record out of STARTED; with
\* required_by at 0 the end of its stop leaves it STOPPED, it is STOPPED once
\* nothing more is due, and it stays STOPPED until another command is given.
C20_AutoRestartDoesNotUndoStop ==
    [][\A s \in Services : flag(s).auto_restart =>
          /\ (Stop(s, TRUE, FALSE) /\ State(s) = "STARTED" /\ NoActiveDependent(s)) =>
                 /\ State(s)' \in {"STOPPING", "STOPPED"}
                 /\ records'[s].required_by = 0
          /\ (stop_cmd' = s /\ records'[s].required_by = 0) =>
                 /\ State(s)' \in {"STOPPING", "STOPPED"}
                 /\ NothingDue' => State(s)' = "STOPPED"
          /\ (stop_cmd = s /\ stop_cmd' = s /\ State(s) = "STOPPED") =>
                 State(s)' = "STOPPED"]_vars

\* the auto-restarting process service p was stopped by command, its process
\* has exited, and it rests in STOPPED
C20_Witness ==
    /\ flag("p").auto_restart
    /\ record_type("p") = "PROCESS"
    /\ stop_cmd = "p"
    /\ records["p"].required_by = 0
    /\ NothingDue
    /\ State("p") = "STOPPED"
    /\ <<"p", "STOPPED">> \in events

\* in this step s has come to STOPPED through stopped() and has not started again
StoppedForGood(s) ==
    /\ State(s) # "STOPPED"
    /\ State(s)' = "STOPPED"
    /\ <<s, "STOPPED">> \in events'

\* the incoming links of s whose acquisition is given up in this step
AcquisitionsCleared(s) ==
    {l \in DependentLinks(s) : links[l].holding_acq /\ ~ links'[l].holding_acq}

\* C21: when a record stops and will not restart, every incoming waits-for or
\* soft link has waiting_on and holding_acq cleared, required_by of the stopped
\* record goes down by exactly one per cleared acquisition (and one for an
\* explicit activation given up), and the dependent is neither stopped nor
\* failed by the step.
C21_StoppedBreaksSoftLinks ==
    [][\A s \in Services : StoppedForGood(s) =>
          /\ records'[s].required_by =
                 records[s].required_by - Cardinality(AcquisitionsCleared(s))
                     - (IF records[s].start_explicit /\ ~ records'[s].start_explicit
                        THEN 1 ELSE 0)
          /\ \A l \in DependentLinks(s) : SoftLink(l) =>
                 /\ ~ links'[l].waiting_on
                 /\ ~ links'[l].holding_acq
                 /\ State(LinkFrom[l])' = State(LinkFrom[l])
                 /\ records'[LinkFrom[l]].start_failed = records[LinkFrom[l]].start_failed
                 /\ ~ records'[LinkFrom[l]].prop_stop
                 /\ ~ records'[LinkFrom[l]].prop_failure]_vars

\* p has stopped for good while its waits-for dependent s2, explicitly started,
\* stays STARTED with the link to p broken
C21_Witness ==
    /\ dep_type(1) = "WAITS_FOR"
    /\ stop_cmd = "p"
    /\ <<"p", "STOPPED">> \in events
    /\ State("p") = "STOPPED"
    /\ ~ records["p"].start_failed
    /\ records["p"].required_by = 0
    /\ ~ links[1].holding_acq
    /\ ~ links[1].waiting_on
    /\ State("s2") = "STARTED"
    /\ records["s2"].start_explicit

\* C22: a STARTED process service without auto_restart and without smooth
\* recovery whose process exits, with whatever status, is STOPPED at once with
\* stop_reason TERMINATED and no timer armed.
C22_UnexpectedExitStops ==
    [][\A s \in Services, status \in ExitStatuses, elapsed \in BOOLEAN :
          (/\ record_type(s) = "PROCESS"
           /\ ~ flag(s).auto_restart
           /\ ~ flag(s).smooth_recovery
           /\ State(s) = "STARTED"
           /\ ProcessExit(s, status, elapsed)) =>
              /\ State(s)' = "STOPPED"
              /\ records'[s].stop_reason = "TERMINATED"
              /\ NoTimer(s)']_vars

\* test_proc_unexpected_term at its end: the process of the started p has
\* exited on its own
C22_Witness ==
    /\ record_type("p") = "PROCESS"
    /\ ~ flag("p").auto_restart
    /\ ~ flag("p").smooth_recovery
    /\ stop_cmd = "none"
    /\ <<"p", "STOPPED">> \in events
    /\ State("p") = "STOPPED"
    /\ records["p"].stop_reason = "TERMINATED"
    /\ records["p"].pid = -1
    /\ NoTimer("p")

\* a process or scripted service with a stop timeout
HasStopTimeout(s) == record_type(s) \in {"PROCESS", "SCRIPTED"} /\ flag(s).stop_timeout

\* the stop of s, begun by a stop command, has got as far as its process: the
\* signal is sent or the stop command is running
StopIssued(s) ==
    /\ stop_cmd = s
    /\ State(s) = "STOPPING"
    /\ ~ records[s].waiting_for_deps
    /\ records[s].pid # -1

\* s will not start again when it has stopped
WillNotRestart(s) ==
    ~ records[s].restarting /\ (~ flag(s).auto_restart \/ records[s].required_by = 0)

\* C23: a stop command puts a STARTED process or scripted service with a stop
\* timeout into STOPPING; once the drain has issued SIGTERM or the stop command
\* the stop timer is armed; its expiry sends SIGKILL and leaves the record
\* STOPPING; nothing but the end of the process takes the record to STOPPED,
\* and that leaves stop_reason NORMAL and no timer armed.
C23_StopTimeout ==
    [][\A s \in Services : HasStopTimeout(s) =>
          /\ (Stop(s, TRUE, FALSE) /\ State(s) = "STARTED") => State(s)' = "STOPPING"
          /\ (StopIssued(s)' /\ Quiescent') =>
                 \/ records'[s].stop_timer_armed /\ records'[s].last_sig # "SIGKILL"
                 \/ ~ records'[s].stop_timer_armed /\ records'[s].last_sig = "SIGKILL"
          /\ (StopIssued(s) /\ records[s].stop_timer_armed /\ TimerExpired(s)) =>
                 /\ State(s)' = "STOPPING"
                 /\ records'[s].last_sig = "SIGKILL"
                 /\ ~ records'[s].stop_timer_armed
          /\ (StopIssued(s) /\ ~ ProcessExits(s) /\ ~ ExecFailed(s)) => State(s)' # "STOPPED"
          /\ (StopIssued(s) /\ WillNotRestart(s) /\ ProcessExits(s)) =>
                 /\ State(s)' = "STOPPED"
                 /\ records'[s].stop_reason = "NORMAL"
                 /\ NoTimer(s)']_vars

\* test_proc_stop_timeout after the timeout: the stop timer of the stopping p
\* has expired and SIGKILL is sent, the exit not yet observed
C23_Witness ==
    /\ HasStopTimeout("p")
    /\ StopIssued("p")
    /\ Quiescent
    /\ records["p"].last_sig = "SIGKILL"
    /\ ~ records["p"].stop_timer_armed

\* the start of s has timed out and s is stopping for it
TimedOut(s) ==
    /\ State(s) = "STOPPING"
    /\ records[s].stop_reason = "TIMEDOUT"
    /\ records[s].pid # -1

SmoothStarted(s) ==
    /\ record_type(s) = "PROCESS"
    /\ flag(s).smooth_recovery
    /\ State(s) = "STARTED"

\* the exit handler launched one process for s and left no timer armed
LaunchedOne(s) ==
    /\ State(s)' = "STARTED"
    /\ forks' = 1
    /\ records'[s].pid # -1
    /\ NoTimer(s)'

\* C25 as it is written: the exit of the process of a STARTED process service
\* with smooth recovery never takes the record out of STARTED.
C25_SmoothNeverLeavesStarted ==
    [][\A s \in Services : (SmoothStarted(s) /\ ProcessExits(s)) => State(s)' = "STARTED"]_vars

\* C25: the exit of the process of a STARTED process service with smooth recovery
\* leaves the record STARTED as long as it has not been restarted too often
\* within the restart interval: before the restart delay has passed only the
\* restart timer is armed and nothing is launched, nothing but the expiry of
\* that timer launches the process, and the expiry launches exactly one; with
\* no restart delay, or once it has passed, exactly one process is launched at
\* once and no timer is armed. After too many restarts the exit leaves the
\* record STOPPED with stop_reason TERMINATED.
C25_SmoothRecovery ==
    [][\A s \in Services : SmoothStarted(s) =>
          /\ \A status \in ExitStatuses, elapsed \in BOOLEAN :
                ProcessExit(s, status, elapsed) =>
                   IF restarted_too_often(World, s)
                   THEN /\ State(s)' = "STOPPED"
                        /\ records'[s].stop_reason = "TERMINATED"
                        /\ forks' = 0
                   ELSE IF flag(s).restart_delay /\ ~ elapsed
                        THEN /\ State(s)' = "STARTED"
                             /\ OnlyRestartTimer(s)'
                             /\ forks' = 0
                        ELSE LaunchedOne(s)
          /\ (records[s].waiting_restart_timer /\ TimerExpired(s)) => LaunchedOne(s)
          /\ (records[s].pid = -1 /\ records'[s].pid # -1) =>
                records[s].waiting_restart_timer /\ TimerExpired(s)]_vars

\* test_proc_smooth_recovery1 at its end: the process of p exited, the restart
\* timer expired, and p is STARTED with the one new process and no timer
C25_Witness ==
    /\ flag("p").smooth_recovery
    /\ flag("p").restart_delay
    /\ State("p") = "STARTED"
    /\ records["p"].restart_interval_count = 1
    /\ ~ records["p"].delay_elapsed
    /\ forks = 1
    /\ records["p"].pid # -1
    /\ records["p"].waiting_for_execstat
    /\ NoTimer("p")

\* a start command has just activated s, and the queues are still to be drained
FreshStart(s) ==
    /\ ~ Quiescent
    /\ State(s) = "STARTING"
    /\ ~ records[s].restarting
    /\ records[s].start_explicit
    /\ records[s].required_by = 1
    /\ records[s].pid = -1
    /\ records[s].waiting_for_deps
    /\ ~ records[s].waiting_restart_timer

\* the process of s is launched and its exec status is awaited
ExecPending(s) ==
    /\ State(s) = "STARTING"
    /\ records[s].pid # -1
    /\ records[s].waiting_for_execstat

\* C26: a start command given to a STOPPED, unrequired process service with no
\* dependencies makes it STARTING with required_by 1; the drain that follows
\* leaves it STARTING with its process launched and the exec status pending;
\* nothing but the report of exec success makes it STARTED, and that report
\* leaves it STARTED with required_by 1 and no timer armed.
C26_ProcessServiceStart ==
    [][\A s \in Services : (record_type(s) = "PROCESS" /\ depends_on(s) = <<>>) =>
          /\ (/\ State(s) = "STOPPED"
              /\ records[s].required_by = 0
              /\ \E do_pin \in BOOLEAN : Start(s, do_pin)) =>
                 /\ State(s)' = "STARTING"
                 /\ records'[s].required_by = 1
          /\ (FreshStart(s) /\ Quiescent') =>
                 /\ ExecPending(s)'
                 /\ forks' = 1
                 /\ records'[s].required_by = 1
                 /\ NoTimer(s)'
          /\ (State(s) # "STARTED" /\ State(s)' = "STARTED") => ExecSucceeded(s)
          /\ (ExecPending(s) /\ records[s].start_explicit /\ records[s].required_by = 1
                /\ ExecSucceeded(s)) =>
                 /\ State(s)' = "STARTED"
                 /\ records'[s].required_by = 1
                 /\ NoTimer(s)'
                 /\ <<s, "STARTED">> \in events']_vars

\* test_proc_service_start at its end: p, started by a start command, is
\* STARTED after the exec success, with required_by 1 and no timer armed
C26_Witness ==
    /\ conf = ConfIso
    /\ State("p") = "STARTED"
    /\ <<"p", "STARTED">> \in events
    /\ records["p"].start_explicit
    /\ records["p"].required_by = 1
    /\ records["p"].pid # -1
    /\ ~ records["p"].waiting_for_execstat
    /\ NoTimer("p")

\* C27: when a STARTED record is taken out of STARTED by a stop command or by
\* the drain that follows one (release from its dependents, propagation from a
\* stopping dependency), without being force-stopped, its stop_reason is NORMAL
\* whatever an earlier failed start left there.
C27_StopReasonNotStale ==
    [][\A s \in Services :
          (/\ State(s) = "STARTED"
           /\ State(s)' \in {"STOPPING", "STOPPED"}
           /\ stop_cmd' # "none"
           /\ ~ records'[s].force_stop) => records'[s].stop_reason = "NORMAL"]_vars

\* the timers armed for record s
TimerCount(s) ==
    (IF records[s].stop_timer_armed THEN 1 ELSE 0)
        + (IF records[s].waiting_restart_timer THEN 1 ELSE 0)

\* s is STARTED under smooth recovery with its process gone and not yet relaunched
InSmoothDelay(s) == flag(s).smooth_recovery /\ State(s) = "STARTED" /\ records[s].pid = -1

\* C28: at most one timer is armed for a record at any time; once the queues
\* are drained a record that is STOPPED, or STARTED and not inside a
\* smooth-recovery restart delay, has no timer armed, and a record that is
\* STOPPING with a stop timeout has exactly one.
C28_OneTimerNoneAtRest ==
    \A s \in Services :
        /\ TimerCount(s) <= 1
        /\ (Quiescent /\ State(s) = "STOPPED") => TimerCount(s) = 0
        /\ (Quiescent /\ State(s) = "STARTED" /\ ~ InSmoothDelay(s)) => TimerCount(s) = 0
        /\ (Quiescent /\ State(s) = "STOPPING" /\ HasStopTimeout(s)) => TimerCount(s) = 1

\* the records that hold the console
ConsoleHolders == {s \in Services : records[s].have_console}

\* s is in the console queue and waits for the console
QueuedForConsole(s) == InSeq(s, console_queue) /\ records[s].waiting_for_console

\* every record in the console queue is STARTING and waits for the console, and is
\* in the queue once
ConsoleQueueWaits ==
    /\ \A i \in 1..Len(console_queue) :
          /\ State(console_queue[i]) = "STARTING"
          /\ records[console_queue[i]].waiting_for_console
    /\ \A i, j \in 1..Len(console_queue) : console_queue[i] = console_queue[j] => i = j

\* C29: at most one record has have_console; no record has have_console and
\* waiting_for_console together; a record that gains have_console was in the
\* console queue, waiting for it, and has left the queue; a STOPPED record
\* does not hold the console; and the queue grants only to STARTING records,
\* because every record in it is STARTING and waiting.
C29_ConsoleArbitration ==
    [][/\ Cardinality(ConsoleHolders') <= 1
       /\ ConsoleQueueWaits'
       /\ \A s \in Services :
             /\ ~ (records'[s].have_console /\ records'[s].waiting_for_console)
             /\ State(s)' = "STOPPED" => ~ records'[s].have_console
             /\ (~ records[s].have_console /\ records'[s].have_console)
                    => QueuedForConsole(s) /\ ~ InSeq(s, console_queue')]_vars

\* p, which kept the console while STARTED, was stopped; on reaching STOPPED it
\* gave the console up, and s2, next in the queue, now runs its start script on it
C29_Witness ==
    /\ flag("p").runs_on_console
    /\ stop_cmd = "p"
    /\ State("p") = "STOPPED"
    /\ ~ records["p"].have_console
    /\ ConsoleHolders = {"s2"}
    /\ State("s2") = "STARTING"
    /\ records["s2"].pid # -1
    /\ console_queue = <<>>

\* a regular or milestone link
HardLink(l) == dep_type(l) \in {"REGULAR", "MILESTONE"}

\* s reaches STOPPED from STOPPING through bring_down: in the transition that
\* calls bring_down, or when the process that bring_down signalled ends
StopsNormally(s) ==
    /\ State(s) = "STOPPING"
    /\ records'[s].service_state = "STOPPED"
    /\ \/ ExecuteTransition /\ Head(stop_queue) = s
       \/ ProcessExits(s) /\ record_type(s) = "PROCESS" /\ records[s].last_sig = "SIGTERM"

\* C30: when a record goes from STOPPING to STOPPED through bring_down, every
\* record that depends on it through a regular or milestone link is STOPPED.
C30_DependentsStopFirst ==
    [][\A l \in LinkIds : (HardLink(l) /\ StopsNormally(LinkTo[l]))
          => records'[LinkFrom[l]].service_state = "STOPPED"]_vars

\* the start of s can be cancelled as the claim has it: s still waits for its
\* dependencies or for the console, or its start is interruptible
WaitingOrInterruptible(s) ==
    \/ records[s].waiting_for_deps
    \/ records[s].waiting_for_console
    \/ flag(s).start_interruptible

\* ... or s waits for its restart delay with nothing launched
CanCancelStart(s) == WaitingOrInterruptible(s) \/ records[s].waiting_restart_timer

\* the start attempt of s comes to its end in this step
StartAttemptEnds(s) ==
    ExecSucceeded(s) \/ ExecFailed(s) \/ ProcessExits(s) \/ TimerExpired(s)

HeldHardDependents(s) ==
    {LinkFrom[l] : l \in {k \in LinkIds : LinkTo[k] = s /\ is_hard(World, k)
                                           /\ links[k].holding_acq}}

\* C32: a stop command for a record with pinned_started set leaves its
\* service_state as it was, notifies nothing, and sets neither prop_stop nor
\* force_stop on the records that depend on it through a hard link.
C32_PinnedStopNoEffect ==
    [][\A s \in Services : (records[s].pinned_started /\ Stop(s, TRUE, FALSE)) =>
          /\ records'[s].service_state = records[s].service_state
          /\ events' = {}
          /\ \A d \in HeldHardDependents(s) :
                /\ records'[d].prop_stop = records[d].prop_stop
                /\ records'[d].force_stop = records[d].force_stop]_vars

\* the notifications that the handler of this step starts from: a command or a
\* process event starts with none, a queue-processing step continues the drain
NotifiedBefore == IF Quiescent THEN {} ELSE events

\* stopped() runs for the STOPPING record s in this step
StoppedRuns(s) ==
    /\ State(s) = "STOPPING"
    /\ <<s, "STOPPED">> \in events'
    /\ <<s, "STOPPED">> \notin NotifiedBefore

\* STARTCANCELLED is notified for s in this step
StartCancelledNow(s) ==
    /\ <<s, "STARTCANCELLED">> \in events'
    /\ <<s, "STARTCANCELLED">> \notin NotifiedBefore

\* C33: when stopped() runs for a STOPPING record, STARTCANCELLED is notified
\* only if restarting was set, and is notified if restarting was set and the
\* record ends STOPPED; a record with auto_restart and restarting clear that a
\* stop command brings to STOPPED gets no STARTCANCELLED.
C33_StartCancelledOnlyForRestart ==
    [][\A s \in Services : StoppedRuns(s) =>
          /\ StartCancelledNow(s) => records[s].restarting
          /\ (/\ records[s].restarting
              /\ records'[s].service_state = "STOPPED"
              /\ <<s, "STARTCANCELLED">> \notin NotifiedBefore) => StartCancelledNow(s)
          /\ (stop_cmd = s /\ flag(s).auto_restart /\ ~ records[s].restarting)
                 => ~ StartCancelledNow(s)]_vars

\* C34: no record has prop_require and prop_release set together.
C34_RequireReleaseExclusive ==
    \A s \in Services : ~ (records[s].prop_require /\ records[s].prop_release)

\* no record has a propagation flag pending
NoPendingPropagation ==
    \A s \in Services :
       /\ ~ records[s].prop_require
       /\ ~ records[s].prop_release
       /\ ~ records[s].prop_failure
       /\ ~ records[s].prop_start
       /\ ~ records[s].prop_stop

\* C35: every drain comes to its end, both queues empty, in fewer than
\* MaxDrainSteps queue-processing steps (the cap on the steps never cuts a
\* drain short), and when both queues are empty no record has a propagation
\* flag pending.
C35_DrainTerminates ==
    /\ drain_steps < MaxDrainSteps
    /\ Quiescent => NoPendingPropagation

\* a drain that has taken eight queue-processing steps and is not yet finished
C35_Witness ==
    /\ drain_steps >= 8
    /\ ~ Quiescent
    /\ ~ NoPendingPropagation

\* the changes of service_state along the cycle and its interruptions
StateCycle ==
    { <<"STOPPED", "STARTING">>, <<"STARTING", "STARTED">>, <<"STARTED", "STOPPING">>,
      <<"STOPPING", "STOPPED">>,
      <<"STARTING", "STOPPING">>, <<"STARTING", "STOPPED">>,
      <<"STOPPING", "STARTING">>, <<"STARTED", "STOPPED">> }

\* the world in which do_propagation(s) reaches its prop_stop block
BeforePropStop(s) == do_propagation([World EXCEPT !.records[s].prop_stop = FALSE], s)

\* do_propagation(s) is about to call do_stop() on s in state STOPPED or STOPPING
DoStopOnStopped(s) ==
    /\ prop_queue # <<>>
    /\ Head(prop_queue) = s
    /\ records[s].prop_stop
    /\ BeforePropStop(s).records[s].service_state \in {"STOPPED", "STOPPING"}

NeededBy(s) == {s} \cup {LinkTo[l] : l \in DepsOf(s)}

\* the latest command is start(s, activate = true) given to the STOPPED record
\* s; no launch has failed, no process has exited other than in a stop, and no
\* timer has run out since
StartedFromStopped(s) == start_cmd = <<s, "STOPPED">>

NoPin == \A t \in Services : ~ records[t].pinned_started /\ ~ records[t].pinned_stopped

\* C37: when start(s, activate = true) is the latest command, no record is
\* pinned, every launch since has succeeded and nothing is due any more
\* (queues empty, no exec status, exit, timer or console grant outstanding),
\* s and all its dependencies are STARTED.
C37_StartReachesStarted ==
    \A s \in Services :
       (/\ StartedFromStopped(s)
        /\ NoPin
        /\ NothingDue
        /\ \A t \in Services : ~ records[t].waiting_for_console)
       => \A t \in NeededBy(s) : State(t) = "STARTED"

\* no child process is running and none is awaited (exec status, restart timer)
NoChild ==
    \A s \in Services :
       /\ records[s].pid = -1
       /\ ~ records[s].waiting_for_execstat
       /\ ~ records[s].waiting_restart_timer

\* C38: whenever both queues are empty, no child process is running or
\* awaited, no record is pinned and no record has start_explicit set, every
\* record is STOPPED with required_by = 0 and no link has holding_acq set.
C38_NoActivationLeaked ==
    (/\ Quiescent
     /\ NoChild
     /\ NoPin
     /\ \A s \in Services : ~ records[s].start_explicit)
    => /\ \A s \in Services : State(s) = "STOPPED" /\ records[s].required_by = 0
       /\ \A l \in LinkIds : ~ links[l].holding_acq

\* C39: after every drain, a record that is STOPPED with required_by = 0 has
\* desired_state STOPPED (so an explicitly started record that a stop command
\* has brought to STOPPED no longer has desired_state STARTED).
C39_StoppedDesiresStopped ==
    Quiescent =>
        \A s \in Services :
            (State(s) = "STOPPED" /\ records[s].required_by = 0)
                => records[s].desired_state = "STOPPED"

\* the latest command is start(s, true) immediately followed by stop(s, true),
\* given while nothing was active
Withdrawn(s) == start_cmd = <<s, "WITHDRAWN">>

\* C40: after start(s, activate = true) immediately followed by
\* stop(s, bring_down = true) with no drain in between, given while nothing is
\* active, the drain that follows ends with s and all its dependencies STOPPED
\* with required_by = 0 and with active_services as it was before (0).
C40_WithdrawnStartStaysDown ==
    \A s \in Services :
       (Quiescent /\ Withdrawn(s)) =>
           /\ \A t \in NeededBy(s) : State(t) = "STOPPED" /\ records[t].required_by = 0
           /\ active_services = 0

====
